---- MODULE Spec2Model ----
(***************************************************************************)
(* Reference dictionaries of edb.lang.schema.referencing: the full         *)
(* (attr) and local (local_attr) child collections of referencing objects  *)
(* connected by inheritance, the classref mutation API, the child          *)
(* Create/Rename/Delete commands, rebase pruning and the merge engine.     *)
(***************************************************************************)
EXTENDS Integers, Sequences, FiniteSets, TLC

\* The referencing objects of the schema, in definition order.  An object
\* may only name earlier objects as bases, which keeps the graph acyclic.
ObjSeq == <<"A", "B", "C">>
Objs == {ObjSeq[i] : i \in 1..Len(ObjSeq)}

\* The shortnames children may have; collections iterate in this order.
KeySeq == <<"p", "q">>
Keys == {KeySeq[i] : i \in 1..Len(KeySeq)}

\* Number of child objects the schema may hold (created or derived).
MaxRefs == 4

\* Longest list of bases of one object.
MaxBases == 2

\* Number of operations applied to the schema in one run.
MaxOps == 3

VARIABLES
    bases,       \* bases[o]: the ordered bases of object o
    refs,        \* refs[i]: the child object with identity i, or NullRef
    attr,        \* attr[o]: the full collection of o, shortname -> child
    local_attr,  \* local_attr[o]: the local collection of o
    last,        \* the operation applied last, its arguments and its outcome
    nops,        \* the number of operations applied so far
    diff,        \* two versions of one object, their delta and its application
    reg,         \* two class declarations and the registries built from them
    ddl          \* one ALTER TYPE ... ADD VALUE command and its text

vars == <<bases, refs, attr, local_attr, last, nops, diff, reg, ddl>>

----------------------------------------------------------------------------
\* ObjectMapping: a name -> child mapping.  A child is named by its identity
\* (its index in refs); None is 0.

None == 0
NoneObj == "None"

\* A collection field that holds None instead of a mapping.
NoneColl == [n \in {"None"} |-> 0]

EmptyMapping == [k \in {} |-> 0]

Has(coll, key) == key \in DOMAIN coll

Get(coll, key) == IF key \in DOMAIN coll THEN coll[key] ELSE None

Names(coll) == SelectSeq(KeySeq, LAMBDA k : k \in DOMAIN coll)

\* coll.replace(schema, updates): a None value is a tombstone.
Replace(coll, updates) ==
    LET dead == {k \in DOMAIN updates : updates[k] = None}
        dom == (DOMAIN coll \cup DOMAIN updates) \ dead
    IN [k \in dom |-> IF k \in DOMAIN updates THEN updates[k] ELSE coll[k]]

Range(s) == {s[i] : i \in 1..Len(s)}

----------------------------------------------------------------------------
\* Inheritance: bases, linearised ancestors, descendants.

Ord(o) == CHOOSE i \in 1..Len(ObjSeq) : ObjSeq[i] = o

\* The base lists object o may be given.
BaseLists(o) ==
    LET earlier == {x \in Objs : Ord(x) < Ord(o)}
    IN {s \in UNION {[1..n -> earlier] : n \in 0..MaxBases} :
            \A i, j \in 1..Len(s) : i # j => s[i] # s[j]}

InTail(x, s) == \E i \in 2..Len(s) : s[i] = x

RECURSIVE C3Merge(_)
C3Merge(seqs) ==
    LET ne == SelectSeq(seqs, LAMBDA s : s # <<>>)
    IN IF ne = <<>> THEN <<>>
       ELSE LET cands == {i \in 1..Len(ne) :
                            \A j \in 1..Len(ne) : ~InTail(Head(ne[i]), ne[j])}
            IN IF cands = {} THEN <<NoneObj>>
               ELSE LET i == CHOOSE c \in cands : \A d \in cands : c <= d
                        h == Head(ne[i])
                    IN <<h>> \o C3Merge([j \in 1..Len(ne) |->
                            IF Head(ne[j]) = h THEN Tail(ne[j]) ELSE ne[j]])

\* get_mro(): the object followed by its linearised ancestors.
RECURSIVE Mro(_, _)
Mro(b, o) ==
    <<o>> \o C3Merge([i \in 1..Len(b[o]) |-> Mro(b, b[o][i])] \o <<b[o]>>)

MroOk(b) == \A o \in Objs : NoneObj \notin Range(Mro(b, o))

Ancestors(b, o) == Tail(Mro(b, o))

\* All objects reachable from o through bases.
RECURSIVE AncestorSet(_, _)
AncestorSet(b, o) ==
    UNION {{b[o][i]} \cup AncestorSet(b, b[o][i]) : i \in 1..Len(b[o])}

Descendants(b, o) == {d \in Objs \ {o} : o \in AncestorSet(b, d)}

Children(b, o) == {d \in Objs : o \in Range(b[d])}

----------------------------------------------------------------------------
\* What `last` records.

NoCtx == <<>>

\* op, obj, key, new_key and replace are the call; err, errkey, errctx and
\* errnames the exception it raised; the rest says what the call found and
\* did: whether a base provided the key, whether the key was in the owner's
\* local collection, the objects whose full collection lost the key, the
\* keys whose value the merge replaced, those it derived a new child for,
\* those for which inherit_pure returned a copy, those for which the delta
\* of the child was computed for the delta context, and the objects given
\* to merge.
Event(op, obj, key) ==
    [op |-> op, obj |-> obj, key |-> key, new_key |-> "-",
     replace |-> FALSE,
     err |-> "none", errkey |-> "-", errctx |-> NoCtx, errnames |-> {},
     is_inherited |-> FALSE, was_local |-> FALSE, removed |-> {},
     merged_keys |-> {}, derived_keys |-> {}, materialized |-> {},
     delta_keys |-> {}, objs |-> <<>>]

----------------------------------------------------------------------------
\* Child objects.  sourcectx is the place of the declaration in the schema
\* source: the number of the statement that declared the child.

NewRef(name, subject, declared_inherited, sourcectx) ==
    [name |-> name, subject |-> subject,
     declared_inherited |-> declared_inherited,
     sourcectx |-> sourcectx]

\* An identity no child object has.
NullRef == [name |-> "-", subject |-> "-", declared_inherited |-> FALSE,
            sourcectx |-> NoCtx]

RefIds == 1..MaxRefs

FreeIds(rs) == {i \in RefIds : rs[i] = NullRef}

\* The identity the next child object gets.
NextId(rs) == CHOOSE i \in FreeIds(rs) : \A j \in FreeIds(rs) : i <= j

\* Child objects no collection refers to any more are dropped from the store.
Live(at, la) ==
    UNION {{at[o][k] : k \in DOMAIN at[o]} \cup
           {la[o][k] : k \in DOMAIN la[o]} : o \in Objs}

Collect(rs, at, la) ==
    [i \in RefIds |-> IF i \in Live(at, la) THEN rs[i] ELSE NullRef]

----------------------------------------------------------------------------
\* Classref mutation API.

\* add_classref that never rejects a duplicate.
AddClassrefNoCheck(rs, local_coll, all_coll, obj, replace) ==
    [err |-> "none", errctx |-> NoCtx,
     local_attr |-> IF local_coll # NoneColl
                    THEN Replace(local_coll, rs[obj].name :> obj)
                    ELSE rs[obj].name :> obj,
     attr |-> IF all_coll # NoneColl
              THEN Replace(all_coll, rs[obj].name :> obj)
              ELSE rs[obj].name :> obj]

\* add_classref that drops the other keys of a full collection it replaces.
AddClassrefFreshFull(rs, local_coll, all_coll, obj, replace) ==
    IF local_coll # NoneColl /\ Has(local_coll, rs[obj].name) /\ ~replace
    THEN [err |-> "SchemaError", errctx |-> rs[obj].sourcectx,
          local_attr |-> local_coll, attr |-> all_coll]
    ELSE [err |-> "none", errctx |-> NoCtx,
          local_attr |-> IF local_coll # NoneColl
                         THEN Replace(local_coll, rs[obj].name :> obj)
                         ELSE rs[obj].name :> obj,
          attr |-> rs[obj].name :> obj]

\* add_classref on the two collections of the owner; obj is a child of rs.
AddClassref(rs, local_coll, all_coll, obj, replace) ==
    LET key == rs[obj].name
    IN IF local_coll # NoneColl /\ Has(local_coll, key) /\ ~replace
       THEN [err |-> "SchemaError", errctx |-> rs[obj].sourcectx,
             local_attr |-> local_coll, attr |-> all_coll]
       ELSE [err |-> "none", errctx |-> NoCtx,
             local_attr |-> IF local_coll # NoneColl
                            THEN Replace(local_coll, key :> obj)
                            ELSE key :> obj,
             attr |-> IF all_coll # NoneColl
                      THEN Replace(all_coll, key :> obj)
                      ELSE key :> obj]

IsInherited(b, at, o, key) == \E i \in 1..Len(b[o]) : Has(at[b[o][i]], key)

\* del_classref that removes the key from the owner alone.
DelClassrefNoCascade(b, at, la, o, key) ==
    [attr |-> IF ~IsInherited(b, at, o, key)
              THEN [at EXCEPT ![o] = Replace(at[o], key :> None)]
              ELSE at,
     local_attr |-> IF Has(la[o], key)
                    THEN [la EXCEPT ![o] = Replace(la[o], key :> None)]
                    ELSE la]

\* del_classref that keeps a local entry a base also provides.
DelClassrefInheritedKept(b, at, la, o, key) ==
    [attr |-> IF ~IsInherited(b, at, o, key)
              THEN [d \in Objs |->
                        IF d = o \/ (d \in Descendants(b, o) /\ ~Has(la[d], key))
                        THEN Replace(at[d], key :> None)
                        ELSE at[d]]
              ELSE at,
     local_attr |-> IF Has(la[o], key) /\ ~IsInherited(b, at, o, key)
                    THEN [la EXCEPT ![o] = Replace(la[o], key :> None)]
                    ELSE la]

\* del_classref that forgets the owner's local collection.
DelClassrefKeepsLocal(b, at, la, o, key) ==
    [attr |-> IF ~IsInherited(b, at, o, key)
              THEN [d \in Objs |->
                        IF d = o \/ (d \in Descendants(b, o) /\ ~Has(la[d], key))
                        THEN Replace(at[d], key :> None)
                        ELSE at[d]]
              ELSE at,
     local_attr |-> la]

\* del_classref on owner o.
DelClassref(b, at, la, o, key) ==
    LET is_inherited == IsInherited(b, at, o, key)
        at1 == IF ~is_inherited
               THEN [d \in Objs |->
                        IF d = o \/ (d \in Descendants(b, o) /\ ~Has(la[d], key))
                        THEN Replace(at[d], key :> None)
                        ELSE at[d]]
               ELSE at
        la1 == IF Has(la[o], key)
               THEN [la EXCEPT ![o] = Replace(la[o], key :> None)]
               ELSE la
    IN [attr |-> at1, local_attr |-> la1]

RECURSIVE OriginLoop(_, _, _, _, _)
OriginLoop(la, cs, name, farthest, result) ==
    IF cs = <<>> THEN result
    ELSE IF Has(la[Head(cs)], name)
         THEN IF ~farthest THEN Head(cs)
              ELSE OriginLoop(la, Tail(cs), name, farthest, Head(cs))
         ELSE OriginLoop(la, Tail(cs), name, farthest, result)

\* get_classref_origin that stops at the first origin whatever farthest is.
GetClassrefOriginNearest(b, at, la, self, name, farthest) ==
    IF ~Has(at[self], name) THEN "AssertionError"
    ELSE LET r0 == IF Has(la[self], name) THEN self ELSE NoneObj
             r1 == IF r0 = NoneObj
                   THEN OriginLoop(la, Ancestors(b, self), name, FALSE, r0)
                   ELSE r0
         IN IF r1 = NoneObj THEN "KeyError" ELSE r1

\* get_classref_origin: the object found, or the exception raised.
GetClassrefOrigin(b, at, la, self, name, farthest) ==
    IF ~Has(at[self], name) THEN "AssertionError"
    ELSE LET r0 == IF Has(la[self], name) THEN self ELSE NoneObj
             r1 == IF r0 = NoneObj \/ farthest
                   THEN OriginLoop(la, Ancestors(b, self), name, farthest, r0)
                   ELSE r0
         IN IF r1 = NoneObj THEN "KeyError" ELSE r1

----------------------------------------------------------------------------
\* Commands on a child nested in a referrer.

\* _create_innards that adds the child to the referrer alone.
CreateInnardsOwnerOnly(b, rs, at, la, o, obj) ==
    LET r == AddClassref(rs, la[o], at[o], obj, FALSE)
    IN IF r.err # "none"
       THEN [err |-> r.err, errctx |-> r.errctx, attr |-> at, local_attr |-> la]
       ELSE [err |-> "none", errctx |-> NoCtx,
             attr |-> [at EXCEPT ![o] = r.attr],
             local_attr |-> [la EXCEPT ![o] = r.local_attr]]

\* ReferencedObjectCommand._create_innards with referrer o; o is NoneObj
\* when the command is applied outside a referrer context.
CreateInnards(b, rs, at, la, o, obj) ==
    IF o = NoneObj
    THEN [err |-> "none", errctx |-> NoCtx, attr |-> at, local_attr |-> la]
    ELSE
    LET r == AddClassref(rs, la[o], at[o], obj, FALSE)
        refname == rs[obj].name
    IN IF r.err # "none"
       THEN [err |-> r.err, errctx |-> r.errctx, attr |-> at, local_attr |-> la]
       ELSE [err |-> "none", errctx |-> NoCtx,
             attr |-> [d \in Objs |->
                        IF d = o THEN r.attr
                        ELSE IF d \in Descendants(b, o) /\ ~Has(la[d], refname)
                             THEN Replace(at[d], refname :> obj)
                             ELSE at[d]],
             local_attr |-> [la EXCEPT ![o] = r.local_attr]]

\* _rename_innards without the return for equal shortnames, the removal of
\* old_name winning over the entry for new_name.
RenameInnardsNoReturn(b, at, la, o, old_name, new_name) ==
    IF o = NoneObj THEN [attr |-> at, local_attr |-> la]
    ELSE LET ren(coll) == IF Has(coll, old_name)
                          THEN Replace(coll, (old_name :> None) @@
                                             (new_name :> coll[old_name]))
                          ELSE coll
         IN [attr |-> [d \in Objs |->
                        IF d = o \/ d \in Children(b, o) THEN ren(at[d])
                        ELSE at[d]],
             local_attr |-> [la EXCEPT ![o] = ren(la[o])]]

\* ReferencedObjectCommand._rename_innards with referrer o, NoneObj outside
\* a referrer context.
RenameInnards(b, at, la, o, old_name, new_name) ==
    IF o = NoneObj THEN [attr |-> at, local_attr |-> la]
    ELSE IF old_name = new_name THEN [attr |-> at, local_attr |-> la]
    ELSE LET ren(coll) == IF Has(coll, old_name)
                          THEN Replace(coll, (old_name :> None) @@
                                             (new_name :> coll[old_name]))
                          ELSE coll
         IN [attr |-> [d \in Objs |->
                        IF d = o \/ d \in Children(b, o) THEN ren(at[d])
                        ELSE at[d]],
             local_attr |-> [la EXCEPT ![o] = ren(la[o])]]

\* Create command of a child named k, nested in referrer o.
CreateRef(o, k, di) ==
    /\ FreeIds(refs) # {}
    /\ LET obj == NextId(refs)
           rs == [refs EXCEPT ![obj] = NewRef(k, o, di, <<nops + 1>>)]
           r == CreateInnards(bases, rs, attr, local_attr, o, obj)
       IN /\ refs' = IF r.err = "none"
                     THEN Collect(rs, r.attr, r.local_attr) ELSE refs
          /\ attr' = r.attr
          /\ local_attr' = r.local_attr
          /\ last' = [Event("create", o, k) EXCEPT
                        !.err = r.err, !.errctx = r.errctx]
    /\ UNCHANGED bases

\* Rename command of the child o declares as old_name.
RenameRef(o, old_name, new_name) ==
    /\ Has(local_attr[o], old_name)
    /\ LET r == RenameInnards(bases, attr, local_attr, o, old_name, new_name)
           scls == local_attr[o][old_name]
       IN /\ refs' = Collect([refs EXCEPT ![scls].name = new_name],
                             r.attr, r.local_attr)
          /\ attr' = r.attr
          /\ local_attr' = r.local_attr
          /\ last' = [Event("rename", o, old_name) EXCEPT !.new_key = new_name]
    /\ UNCHANGED bases

\* ReferencedObjectCommand._delete_innards with referrer o, NoneObj outside
\* a referrer context.
RefDeleteInnards(b, at, la, o, key) ==
    IF o = NoneObj THEN [attr |-> at, local_attr |-> la]
    ELSE DelClassref(b, at, la, o, key)

\* The objects whose full collection had key in at and has not in at1.
Removed(at, at1, key) == {d \in Objs : Has(at[d], key) /\ ~Has(at1[d], key)}

\* Delete command of the child o declares as k.
DeleteRef(o, k) ==
    /\ Has(local_attr[o], k)
    /\ LET r == RefDeleteInnards(bases, attr, local_attr, o, k)
       IN /\ attr' = r.attr
          /\ local_attr' = r.local_attr
          /\ refs' = Collect(refs, r.attr, r.local_attr)
          /\ last' = [Event("delete", o, k) EXCEPT
                        !.is_inherited = IsInherited(bases, attr, o, k),
                        !.was_local = Has(local_attr[o], k),
                        !.removed = Removed(attr, r.attr, k)]
    /\ UNCHANGED bases

\* Create, Rename and Delete commands of a child applied outside a referrer
\* context: get_referrer_context returns None.  The child is an object of
\* the schema that no collection holds.
CreateUnnested(k) ==
    /\ FreeIds(refs) # {}
    /\ LET obj == NextId(refs)
           rs == [refs EXCEPT ![obj] = NewRef(k, NoneObj, FALSE, <<nops + 1>>)]
           r == CreateInnards(bases, rs, attr, local_attr, NoneObj, obj)
       IN /\ refs' = Collect(rs, r.attr, r.local_attr)
          /\ attr' = r.attr
          /\ local_attr' = r.local_attr
          /\ last' = Event("create_unnested", "-", k)
    /\ UNCHANGED bases

RenameUnnested(old_name, new_name) ==
    /\ LET r == RenameInnards(bases, attr, local_attr, NoneObj, old_name, new_name)
       IN /\ refs' = Collect(refs, r.attr, r.local_attr)
          /\ attr' = r.attr
          /\ local_attr' = r.local_attr
          /\ last' = [Event("rename_unnested", "-", old_name) EXCEPT
                        !.new_key = new_name]
    /\ UNCHANGED bases

DeleteUnnested(k) ==
    /\ LET r == RefDeleteInnards(bases, attr, local_attr, NoneObj, k)
       IN /\ refs' = Collect(refs, r.attr, r.local_attr)
          /\ attr' = r.attr
          /\ local_attr' = r.local_attr
          /\ last' = Event("delete_unnested", "-", k)
    /\ UNCHANGED bases

----------------------------------------------------------------------------
\* The API called directly.

AddClassrefOp(o, k, di, replace) ==
    /\ FreeIds(refs) # {}
    /\ LET obj == NextId(refs)
           rs == [refs EXCEPT ![obj] = NewRef(k, o, di, <<nops + 1>>)]
           r == AddClassref(rs, local_attr[o], attr[o], obj, replace)
           at1 == [attr EXCEPT ![o] = r.attr]
           la1 == [local_attr EXCEPT ![o] = r.local_attr]
       IN /\ refs' = IF r.err = "none" THEN Collect(rs, at1, la1) ELSE refs
          /\ attr' = at1
          /\ local_attr' = la1
          /\ last' = [Event("add_classref", o, k) EXCEPT
                        !.replace = replace, !.err = r.err,
                        !.errctx = r.errctx,
                        !.was_local = Has(local_attr[o], k)]
    /\ UNCHANGED bases

DelClassrefOp(o, k) ==
    /\ LET r == DelClassref(bases, attr, local_attr, o, k)
       IN /\ attr' = r.attr
          /\ local_attr' = r.local_attr
          /\ refs' = Collect(refs, r.attr, r.local_attr)
          /\ last' = [Event("del_classref", o, k) EXCEPT
                        !.is_inherited = IsInherited(bases, attr, o, k),
                        !.was_local = Has(local_attr[o], k),
                        !.removed = Removed(attr, r.attr, k)]
    /\ UNCHANGED bases

----------------------------------------------------------------------------
\* The pruning applied to the rebased object alone, not to its descendants.
PruneSelfOnly(b, at, la, o) ==
    [d \in Objs |->
        IF d = o
        THEN [k \in {n \in DOMAIN at[d] :
                        Has(la[d], n) \/
                        GetClassrefOrigin(b, at, la, d, n, FALSE) # "KeyError"}
                |-> at[d][k]]
        ELSE at[d]]

\* A rebase without the pruning.
PruneNothing(b, at, la, o) == at

\* RebaseReferencingObject.apply: new bases, then pruning of the keys
\* that lost their origin, on the object and its descendants.
Prune(b, at, la, o) ==
    [d \in Objs |->
        IF d = o \/ d \in Descendants(b, o)
        THEN [k \in {n \in DOMAIN at[d] :
                        Has(la[d], n) \/
                        GetClassrefOrigin(b, at, la, d, n, FALSE) # "KeyError"}
                |-> at[d][k]]
        ELSE at[d]]

Rebase(o, nb) ==
    /\ nb # bases[o]
    /\ LET b2 == [bases EXCEPT ![o] = nb]
           at1 == Prune(b2, attr, local_attr, o)
       IN /\ MroOk(b2)
          /\ bases' = b2
          /\ attr' = at1
          /\ refs' = Collect(refs, at1, local_attr)
          /\ last' = Event("rebase", o, "-")
    /\ UNCHANGED local_attr

----------------------------------------------------------------------------
\* The merge engine.

\* The delta contexts finalize may be given.
DCtxs == {"None", "nondeclarative", "declarative"}

\* inherited, de-duplicated as `ancestry` does: one entry per value of the
\* back-reference, in order of first appearance, the last child winning.
RECURSIVE FirstOccurrences(_)
FirstOccurrences(s) ==
    IF s = <<>> THEN <<>>
    ELSE <<Head(s)>> \o
         FirstOccurrences(SelectSeq(Tail(s), LAMBDA x : x # Head(s)))

Ancestry(rs, inherited) ==
    FirstOccurrences([i \in 1..Len(inherited) |-> rs[inherited[i]].subject])

\* inherited, every base's child kept.
NoDedupInherited(rs, inherited) == inherited

DedupInherited(rs, inherited) ==
    LET owners == Ancestry(rs, inherited)
        lastOf(s) == CHOOSE i \in 1..Len(inherited) :
                        /\ rs[inherited[i]].subject = s
                        /\ \A j \in 1..Len(inherited) :
                              rs[inherited[j]].subject = s => j <= i
    IN [n \in 1..Len(owners) |-> inherited[lastOf(owners[n])]]

\* What the bases provide under classref_key, in base order.
InheritedFrom(bs, at, classref_key) ==
    LET provides == SelectSeq(bs, LAMBDA x : Has(at[x], classref_key))
    IN [i \in 1..Len(provides) |-> at[provides[i]][classref_key]]

\* local.derive_copy(schema, self, merge_bases=inherited): a copy of the
\* child, owned by self.
DeriveCopy(ref, self) == [ref EXCEPT !.subject = self]

\* base.derive(schema, self, merge_bases=inherited): a new child of self
\* under the name of the inherited ones.
Derive(name, self) == NewRef(name, self, FALSE, NoCtx)

\* A child kind that always materializes.
InheritPureAlwaysCopies(item, fresh, mat) == fresh

\* classrefcls.inherit_pure: the item itself, or a copy of it (fresh) when
\* the child kind materializes inherited children.
InheritPure(item, fresh, mat) == IF mat THEN fresh ELSE item

\* The test, passing every local child that has the keyword or not.
MustBeInheritedNever(rs, local, merged, requires_explicit_inherit, dctx) ==
    FALSE

\* The test applied whatever the delta context.
MustBeInheritedAnyContext(rs, local, merged, requires_explicit_inherit, dctx) ==
    /\ local # None /\ local # merged
    /\ requires_explicit_inherit
    /\ ~rs[local].declared_inherited

\* The test for a local child that overrides without the `inherited` keyword.
MustBeInherited(rs, local, merged, requires_explicit_inherit, dctx) ==
    /\ local # None /\ local # merged
    /\ requires_explicit_inherit
    /\ ~rs[local].declared_inherited
    /\ dctx # "None" /\ dctx = "declarative"

\* The test for a local child declared `inherited` with nothing to inherit;
\* it reads local.declared_inherited even when local is None.
CannotBeInherited(rs, local, merged) ==
    IF merged # local THEN "no"
    ELSE IF local = None THEN "AttributeError"
    ELSE IF rs[local].declared_inherited THEN "yes" ELSE "no"

\* One round of the loop of merge_classref_dict, on the running result acc.
MergeKey(bs, at, self, acc, classref_key, requires_explicit_inherit, dctx, mat) ==
    LET rs == acc.refs
        local == Get(acc.local_classrefs, classref_key)
        found == InheritedFrom(bs, at, classref_key)
        inherited == DedupInherited(rs, found)
        fresh == IF FreeIds(rs) = {} THEN None ELSE NextId(rs)
        merged == IF local # None /\ inherited # <<>> THEN fresh
                  ELSE IF Len(inherited) > 1 THEN fresh
                  ELSE IF Len(inherited) = 1
                       THEN InheritPure(inherited[1], fresh, mat)
                  ELSE local
        pure_inheritance == /\ ~(local # None /\ inherited # <<>>)
                            /\ Len(inherited) = 1
                            /\ merged = inherited[1]
        derives == inherited # <<>> /\ ~pure_inheritance
        copy == IF local # None
                THEN DeriveCopy(rs[local], self)
                ELSE Derive(classref_key, self)
        rs1 == IF derives /\ fresh # None
               THEN [rs EXCEPT ![fresh] = copy] ELSE rs
    IN IF derives /\ fresh = None
       THEN [acc EXCEPT !.err = "full"]
       ELSE IF MustBeInherited(rs, local, merged,
                               requires_explicit_inherit, dctx)
       THEN [acc EXCEPT !.err = "SchemaDefinitionError: must be inherited",
                        !.errkey = classref_key,
                        !.errctx = rs[local].sourcectx,
                        !.errnames = Range(Ancestry(rs, found))]
       ELSE IF CannotBeInherited(rs, local, merged) = "AttributeError"
       THEN [acc EXCEPT !.err = "AttributeError", !.errkey = classref_key]
       ELSE IF CannotBeInherited(rs, local, merged) = "yes"
       THEN [acc EXCEPT !.err = "SchemaDefinitionError: cannot be inherited",
                        !.errkey = classref_key,
                        !.errctx = rs[local].sourcectx]
       ELSE IF merged # local
       THEN [acc EXCEPT
               !.refs = rs1,
               !.local_classrefs =
                    IF ~pure_inheritance
                    THEN Replace(acc.local_classrefs, classref_key :> merged)
                    ELSE acc.local_classrefs,
               !.classrefs = Replace(acc.classrefs, classref_key :> merged),
               !.merged_keys = acc.merged_keys \cup {classref_key},
               !.derived_keys = IF derives
                                THEN acc.derived_keys \cup {classref_key}
                                ELSE acc.derived_keys,
               !.materialized =
                    IF derives /\ local = None /\ Len(inherited) = 1
                    THEN acc.materialized \cup {classref_key}
                    ELSE acc.materialized,
               \* merged.delta(local, merged), added to dctx.current().op
               \* when it has subcommands
               !.delta_keys =
                    IF ~pure_inheritance /\ dctx # "None"
                    THEN acc.delta_keys \cup {classref_key}
                    ELSE acc.delta_keys]
       ELSE acc

RECURSIVE MergeLoop(_, _, _, _, _, _, _, _)
MergeLoop(bs, at, self, acc, keys, requires_explicit_inherit, dctx, mat) ==
    IF keys = <<>> \/ acc.err # "none" THEN acc
    ELSE MergeLoop(bs, at, self,
                   MergeKey(bs, at, self, acc, Head(keys),
                            requires_explicit_inherit, dctx, mat),
                   Tail(keys), requires_explicit_inherit, dctx, mat)

\* The merge that commits the full collection alone and leaves the local
\* collection as it found it.
MergeClassrefDictFullOnly(bs, rs, at, la, self, classref_keys, requires_explicit_inherit, dctx, mat) ==
    LET classrefs == IF at[self] = NoneColl THEN EmptyMapping ELSE at[self]
        local_classrefs == IF la[self] = NoneColl THEN EmptyMapping
                           ELSE la[self]
        keys == IF classref_keys = <<NoneObj>> THEN Names(classrefs)
                ELSE classref_keys
        r == MergeLoop(bs, at, self,
                 [refs |-> rs, classrefs |-> classrefs,
                  local_classrefs |-> local_classrefs,
                  err |-> "none", errkey |-> "-", errctx |-> NoCtx,
                  errnames |-> {}, merged_keys |-> {},
                  derived_keys |-> {}, materialized |-> {},
                  delta_keys |-> {}],
                 keys, requires_explicit_inherit, dctx, mat)
    IN [r EXCEPT !.local_classrefs = local_classrefs]

\* merge_classref_dict of object self; classref_keys is <<NoneObj>> for None.
MergeClassrefDict(bs, rs, at, la, self, classref_keys, requires_explicit_inherit, dctx, mat) ==
    LET classrefs == IF at[self] = NoneColl THEN EmptyMapping ELSE at[self]
        local_classrefs == IF la[self] = NoneColl THEN EmptyMapping
                           ELSE la[self]
        keys == IF classref_keys = <<NoneObj>> THEN Names(classrefs)
                ELSE classref_keys
    IN MergeLoop(bs, at, self,
                 [refs |-> rs, classrefs |-> classrefs,
                  local_classrefs |-> local_classrefs,
                  err |-> "none", errkey |-> "-", errctx |-> NoCtx,
                  errnames |-> {}, merged_keys |-> {},
                  derived_keys |-> {}, materialized |-> {},
                  delta_keys |-> {}],
                 keys, requires_explicit_inherit, dctx, mat)

\* The key lists begin_classref_dict_merge may hand to the merge.
RefKeyLists == {<<NoneObj>>} \cup {<<k>> : k \in Keys} \cup {KeySeq}

\* The keys the merge of object o goes through.
ClassrefKeys(at, o, classref_keys) ==
    IF classref_keys = <<NoneObj>> THEN Names(at[o]) ELSE classref_keys

\* finalize reads requires_explicit_inherit and the delta context only for a
\* key some base provides, and calls inherit_pure only for a key with no
\* local child that one origin provides.  An input the call never reads is
\* left at its first value.
ReadsContext(o, ks) ==
    \E i \in 1..Len(ks) : InheritedFrom(bases[o], attr, ks[i]) # <<>>

CallsInheritPure(o, ks) ==
    \E i \in 1..Len(ks) :
        /\ ~Has(local_attr[o], ks[i])
        /\ Len(Ancestry(refs, InheritedFrom(bases[o], attr, ks[i]))) = 1

\* ReferencingObject.finalize of object o.
Finalize(o, ref_keys, exp_inh, dctx, mat) ==
    /\ (exp_inh \/ dctx # "None") =>
            ReadsContext(o, ClassrefKeys(attr, o, ref_keys))
    /\ mat => CallsInheritPure(o, ClassrefKeys(attr, o, ref_keys))
    /\ LET r == MergeClassrefDict(bases[o], refs, attr, local_attr, o,
                                  ref_keys, exp_inh, dctx, mat)
           at1 == [attr EXCEPT ![o] = r.classrefs]
           la1 == [local_attr EXCEPT ![o] = r.local_classrefs]
       IN /\ r.err # "full"
          /\ IF r.err = "none"
             THEN /\ attr' = at1
                  /\ local_attr' = la1
                  /\ refs' = Collect(r.refs, at1, la1)
             ELSE UNCHANGED <<attr, local_attr, refs>>
          /\ last' = [Event("finalize", o, "-") EXCEPT
                        !.err = r.err, !.errkey = r.errkey,
                        !.errctx = r.errctx, !.errnames = r.errnames,
                        !.merged_keys = r.merged_keys,
                        !.derived_keys = r.derived_keys,
                        !.materialized = r.materialized,
                        !.delta_keys = r.delta_keys]
    /\ UNCHANGED bases

\* rederive_classrefs of object o: every local child is replaced by a copy.
RECURSIVE RederiveLoop(_, _, _)
RederiveLoop(acc, self, names) ==
    IF names = <<>> \/ acc.err # "none" THEN acc
    ELSE LET pn == Head(names)
             p == acc.local_coll[pn]
         IN IF FreeIds(acc.refs) = {} THEN [acc EXCEPT !.err = "full"]
            ELSE LET obj == NextId(acc.refs)
                 IN RederiveLoop(
                        [acc EXCEPT
                            !.refs = [acc.refs EXCEPT
                                        ![obj] = DeriveCopy(acc.refs[p], self)],
                            !.local_coll = Replace(acc.local_coll, pn :> obj)],
                        self, Tail(names))

RederiveClassrefs(rs, all_coll, local_coll, self) ==
    LET r == RederiveLoop([refs |-> rs, local_coll |-> local_coll,
                           err |-> "none"], self, Names(local_coll))
    IN [err |-> r.err, refs |-> r.refs, local_attr |-> r.local_coll,
        attr |-> Replace(all_coll, r.local_coll)]

Rederive(o) ==
    /\ LET r == RederiveClassrefs(refs, attr[o], local_attr[o], o)
           at1 == [attr EXCEPT ![o] = r.attr]
           la1 == [local_attr EXCEPT ![o] = r.local_attr]
       IN /\ r.err = "none"
          /\ attr' = at1
          /\ local_attr' = la1
          /\ refs' = Collect(r.refs, at1, la1)
          /\ last' = Event("rederive_classrefs", o, "-")
    /\ UNCHANGED bases

\* The Rename command applied to the child of o and then, in turn, to the
\* child of every child object of o that declares old_name itself.
RECURSIVE RenameOverriding(_, _, _, _, _, _)
RenameOverriding(b, rs, at, la, os, names) ==
    IF os = <<>> THEN [refs |-> rs, attr |-> at, local_attr |-> la]
    ELSE LET o == Head(os)
         IN IF ~Has(la[o], names[1])
            THEN RenameOverriding(b, rs, at, la, Tail(os), names)
            ELSE LET r == RenameInnards(b, at, la, o, names[1], names[2])
                     rs1 == [rs EXCEPT ![la[o][names[1]]].name = names[2]]
                     cs == SelectSeq(ObjSeq, LAMBDA c : c \in Children(b, o))
                 IN RenameOverriding(b, rs1, r.attr, r.local_attr,
                                     cs \o Tail(os), names)

RenameRefs(o, old_name, new_name) ==
    /\ Has(local_attr[o], old_name)
    /\ LET r == RenameOverriding(bases, refs, attr, local_attr, <<o>>,
                                 <<old_name, new_name>>)
       IN /\ refs' = Collect(r.refs, r.attr, r.local_attr)
          /\ attr' = r.attr
          /\ local_attr' = r.local_attr
          /\ last' = [Event("rename", o, old_name) EXCEPT !.new_key = new_name]
    /\ UNCHANGED bases

----------------------------------------------------------------------------
\* delta: the difference of two versions of one referencing object, as a
\* command tree, and the application of such a tree.  A version carries one
\* local and one full collection per RefDict; here a collection maps a
\* shortname to the content of the child, and two children are equal when
\* their contents are.

\* The RefDicts the class declares, in the order of its body.
MyDicts == <<"r1", "r2">>

Reversed(s) == [i \in 1..Len(s) |-> s[Len(s) + 1 - i]]

\* get_refdicts() yielding the RefDicts in declaration order.
RefDictSeqDeclared == MyDicts

\* The RefDicts of the class, in get_refdicts() order: the metaclass
\* collects them in declaration order and stores them reversed.
RefDictSeq == Reversed(MyDicts)
RefDicts == Range(RefDictSeq)

\* The contents a locally declared child may have.
ChildVals == {1, 2}

\* The content of the child a base provides.
BaseChild == 3

Mappings == UNION {[ks -> ChildVals] : ks \in SUBSET Keys}

\* The full collections of a version with the local collections local whose
\* bases provide the names provided[r].
FullOf(local, provided) ==
    [r \in RefDicts |->
        [k \in DOMAIN local[r] \cup provided[r] |->
            IF k \in DOMAIN local[r] THEN local[r][k] ELSE BaseChild]]

Version(local, provided) ==
    [none |-> FALSE, local |-> local, full |-> FullOf(local, provided)]

\* old (or new) is None.
NoVersion ==
    [none |-> TRUE, local |-> [r \in RefDicts |-> EmptyMapping],
     full |-> [r \in RefDicts |-> EmptyMapping]]

\* A command on a child of the RefDict whose ref_cls is metaclass.
ChildCmd(op, metaclass, classname, value) ==
    [op |-> op, metaclass |-> metaclass, classname |-> classname,
     value |-> value]

\* A command on the object; a CommandGroup holds object commands.
ObjectCmd(op, subs) == [op |-> op, subs |-> subs]

\* so.Object.delta: the command for the object itself, without children.
ObjectDelta(old, new) ==
    IF old.none THEN ObjectCmd("CreateObject", <<>>)
    ELSE IF new.none THEN ObjectCmd("DeleteObject", <<>>)
    ELSE ObjectCmd("AlterObject", <<>>)

\* The child commands of one kind for the names ks, in name order.
ChildCmds(op, metaclass, ks, coll) ==
    LET names == SelectSeq(KeySeq, LAMBDA k : k \in ks)
    IN [i \in 1..Len(names) |-> ChildCmd(op, metaclass, names[i], Get(coll, names[i]))]

\* delta_sets that alters every child of both indexes, equal or not.
DeltaSetsAlterAll(metaclass, oldcoll_idx, newcoll_idx, result) ==
    LET both == DOMAIN oldcoll_idx \cap DOMAIN newcoll_idx
        created == DOMAIN newcoll_idx \ DOMAIN oldcoll_idx
        deleted == DOMAIN oldcoll_idx \ DOMAIN newcoll_idx
    IN [result EXCEPT !.subs = @
            \o ChildCmds("AlterObject", metaclass, both, newcoll_idx)
            \o ChildCmds("CreateObject", metaclass, created, newcoll_idx)
            \o ChildCmds("DeleteObject", metaclass, deleted, oldcoll_idx)]

\* delta_sets: the children of both indexes whose delta is not empty are
\* altered, those of the new index alone are created, those of the old
\* index alone are deleted; the commands are added to result.
DeltaSets(metaclass, oldcoll_idx, newcoll_idx, result) ==
    LET both == DOMAIN oldcoll_idx \cap DOMAIN newcoll_idx
        altered == {k \in both : oldcoll_idx[k] # newcoll_idx[k]}
        created == DOMAIN newcoll_idx \ DOMAIN oldcoll_idx
        deleted == DOMAIN oldcoll_idx \ DOMAIN newcoll_idx
    IN [result EXCEPT !.subs = @
            \o ChildCmds("AlterObject", metaclass, altered, newcoll_idx)
            \o ChildCmds("CreateObject", metaclass, created, newcoll_idx)
            \o ChildCmds("DeleteObject", metaclass, deleted, oldcoll_idx)]

\* The loop of delta comparing the full collections instead of the local ones.
RECURSIVE DeltaRefdictsFull(_, _, _, _)
DeltaRefdictsFull(i, old, new, alter_delta) ==
    IF i > Len(RefDictSeq) THEN alter_delta
    ELSE LET refdict == RefDictSeq[i]
         IN DeltaRefdictsFull(i + 1, old, new,
                DeltaSets(refdict, old.full[refdict], new.full[refdict], alter_delta))

\* The loop of delta over the RefDicts from the i-th on.
RECURSIVE DeltaRefdicts(_, _, _, _)
DeltaRefdicts(i, old, new, alter_delta) ==
    IF i > Len(RefDictSeq) THEN alter_delta
    ELSE LET refdict == RefDictSeq[i]
             oldcoll_idx == IF ~old.none THEN old.local[refdict] ELSE EmptyMapping
             newcoll_idx == IF ~new.none THEN new.local[refdict] ELSE EmptyMapping
         IN DeltaRefdicts(i + 1, old, new,
                DeltaSets(refdict, oldcoll_idx, newcoll_idx, alter_delta))

\* delta that adds the child commands to the Create command itself.
DeltaNested(old, new) ==
    DeltaRefdicts(1, old, new, ObjectDelta(old, new))

\* ReferencingObject.delta
Delta(old, new) ==
    LET delta == ObjectDelta(old, new)
        is_create == delta.op = "CreateObject"
        alter_delta == DeltaRefdicts(1, old, new,
                           IF is_create THEN ObjectDelta(new, new) ELSE delta)
    IN IF is_create
       THEN IF alter_delta.subs # <<>>
            THEN ObjectCmd("CommandGroup", <<delta, alter_delta>>)
            ELSE delta
       ELSE alter_delta

\* The object a command tree is applied to: its collections and the error
\* that stopped the application.
Applied(none, local, full, err) ==
    [none |-> none, local |-> local, full |-> full, err |-> err]

\* op.apply of a child command on the owner scls, whose bases provide the
\* names provided[r]: Create adds the child with add_classref, Alter changes
\* the child the collections hold, Delete removes it with del_classref.
ApplyChild(scls, op, provided) ==
    LET r == op.metaclass
        key == op.classname
        local_coll == scls.local[r]
        all_coll == scls.full[r]
        is_inherited == key \in provided[r]
    IN IF scls.err # "none" THEN scls
       ELSE IF op.op = "CreateObject"
       THEN IF Has(local_coll, key)
            THEN [scls EXCEPT !.err = "SchemaError"]
            ELSE [scls EXCEPT !.local[r] = Replace(local_coll, key :> op.value),
                              !.full[r] = Replace(all_coll, key :> op.value)]
       ELSE IF ~Has(local_coll, key)
       THEN [scls EXCEPT !.err = "not found"]
       ELSE IF op.op = "AlterObject"
       THEN [scls EXCEPT !.local[r] = Replace(local_coll, key :> op.value),
                         !.full[r] = Replace(all_coll, key :> op.value)]
       ELSE [scls EXCEPT !.local[r] = Replace(local_coll, key :> None),
                         !.full[r] = IF is_inherited THEN all_coll
                                     ELSE Replace(all_coll, key :> None)]

\* The subcommands of cmd on children of refdict, in the order of the list.
GetSubcommands(cmd, refdict) ==
    SelectSeq(cmd.subs, LAMBDA op : op.metaclass = refdict)

\* The subcommands applied from the end of the list to its start.
RECURSIVE ApplyOpsReversed(_, _, _)
ApplyOpsReversed(scls, ops, provided) ==
    IF ops = <<>> THEN scls
    ELSE ApplyChild(ApplyOpsReversed(scls, Tail(ops), provided), Head(ops), provided)

RECURSIVE ApplyOps(_, _, _)
ApplyOps(scls, ops, provided) ==
    IF ops = <<>> THEN scls
    ELSE ApplyOps(ApplyChild(scls, Head(ops), provided), Tail(ops), provided)

\* _create_refs and _alter_refs
AlterRefs(scls, cmd, refdict, provided) ==
    ApplyOps(scls, GetSubcommands(cmd, refdict), provided)

\* _delete_refs without the implicit Delete commands.
DeleteRefsExplicitOnly(scls, cmd, refdict, provided) ==
    [scls |-> ApplyOps(scls, GetSubcommands(cmd, refdict), provided), added |-> <<>>]

\* _delete_refs that applies the implicit Delete commands and does not add
\* them to the command.
DeleteRefsNotAdded(scls, cmd, refdict, provided) ==
    LET ops == GetSubcommands(cmd, refdict)
        s1 == ApplyOps(scls, ops, provided)
        deleted_refs == {ops[i].classname : i \in 1..Len(ops)}
        all_refs == DOMAIN s1.local[refdict]
        implicit == ChildCmds("DeleteObject", refdict, all_refs \ deleted_refs,
                              s1.local[refdict])
    IN [scls |-> ApplyOps(s1, implicit, provided), added |-> <<>>]

\* _delete_refs: the explicit subcommands, then an implicit Delete for each
\* local child no subcommand returned.
DeleteRefs(scls, cmd, refdict, provided) ==
    LET ops == GetSubcommands(cmd, refdict)
        s1 == ApplyOps(scls, ops, provided)
        deleted_refs == {ops[i].classname : i \in 1..Len(ops)}
        all_refs == DOMAIN s1.local[refdict]
        implicit == ChildCmds("DeleteObject", refdict, all_refs \ deleted_refs,
                              s1.local[refdict])
    IN [scls |-> ApplyOps(s1, implicit, provided), added |-> implicit]

\* _create_innards and _alter_innards: the RefDicts in get_refdicts() order.
RECURSIVE AlterInnards(_, _, _, _)
AlterInnards(i, scls, cmd, provided) ==
    IF i > Len(RefDictSeq) THEN scls
    ELSE AlterInnards(i + 1, AlterRefs(scls, cmd, RefDictSeq[i], provided),
                      cmd, provided)

\* _delete_innards; the implicit commands are added to the command.
RECURSIVE DeleteInnards(_, _, _, _)
DeleteInnards(i, scls, cmd, provided) ==
    IF i > Len(RefDictSeq) THEN [scls |-> scls, cmd |-> cmd]
    ELSE LET r == DeleteRefs(scls, cmd, RefDictSeq[i], provided)
         IN DeleteInnards(i + 1, r.scls,
                          [cmd EXCEPT !.subs = @ \o r.added], provided)

\* apply of one object command.
ApplyObjectCmd(scls, cmd, provided) ==
    IF scls.err # "none" THEN scls
    ELSE IF cmd.op = "CreateObject"
    THEN AlterInnards(1, [scls EXCEPT !.none = FALSE], cmd, provided)
    ELSE IF cmd.op = "AlterObject"
    THEN AlterInnards(1, scls, cmd, provided)
    ELSE [DeleteInnards(1, scls, cmd, provided).scls EXCEPT !.none = TRUE]

\* apply of a command tree: a CommandGroup applies its commands in order.
RECURSIVE ApplyGroup(_, _, _)
ApplyGroup(scls, cmds, provided) ==
    IF cmds = <<>> THEN scls
    ELSE ApplyGroup(ApplyObjectCmd(scls, Head(cmds), provided), Tail(cmds),
                    provided)

ApplyCmd(version, cmd, provided) ==
    LET scls == Applied(version.none, version.local, version.full, "none")
    IN IF cmd.op = "CommandGroup" THEN ApplyGroup(scls, cmd.subs, provided)
       ELSE ApplyObjectCmd(scls, cmd, provided)

\* No delta is being computed.
NoCmd == ObjectCmd("none", <<>>)
NoDiff ==
    [phase |-> "idle", old |-> NoVersion, new |-> NoVersion,
     provided |-> [r \in RefDicts |-> {}], cmd |-> NoCmd, explicit |-> <<>>,
     result |-> Applied(TRUE, NoVersion.local, NoVersion.full, "none")]

\* The pairs of versions delta may be given: old or new may be None, and
\* both versions have the same bases.
DiffInputs ==
    {[NoDiff EXCEPT !.phase = "versions", !.old = o, !.new = n, !.provided = p] :
        <<o, n, p>> \in
            {<<o, n, p>> \in
                UNION {({NoVersion} \cup {Version(l, p) : l \in [RefDicts -> Mappings]})
                       \X ({NoVersion} \cup {Version(l, p) : l \in [RefDicts -> Mappings]})
                       \X {p} : p \in [RefDicts -> SUBSET Keys]} :
                ~(o.none /\ n.none)}}

\* cmd = delta(old, new)
ComputeDelta ==
    /\ diff.phase = "versions"
    /\ diff' = [diff EXCEPT !.phase = "delta", !.cmd = Delta(diff.old, diff.new)]
    /\ UNCHANGED <<bases, refs, attr, local_attr, last, nops, reg, ddl>>

\* cmd.apply on the old version.
ApplyDelta ==
    /\ diff.phase = "delta"
    /\ diff' = [diff EXCEPT !.phase = "applied",
                            !.result = ApplyCmd(diff.old, diff.cmd, diff.provided)]
    /\ UNCHANGED <<bases, refs, attr, local_attr, last, nops, reg, ddl>>

\* The subcommand lists of the kinds ops a command may carry: for each
\* child name of each RefDict none or one command, in name order.
SubcommandLists(ops) ==
    LET choice == [RefDicts \X Keys -> {"none"} \cup ops]
        Ops(c, r) ==
            LET names == SelectSeq(KeySeq, LAMBDA k : c[<<r, k>>] # "none")
            IN [i \in 1..Len(names) |-> ChildCmd(c[<<r, names[i]>>], r, names[i], 1)]
    IN {Ops(c, RefDictSeq[1]) \o Ops(c, RefDictSeq[2]) : c \in choice}

\* The explicit subcommands a Delete command may carry.
ExplicitOps == SubcommandLists({"DeleteObject", "AlterObject"})

\* Subcommand lists whose outcome depends on the order: two commands on
\* one child, and the same with a command on a child of the other RefDict
\* before, between or after them.
OrderedLists ==
    LET ops == {"CreateObject", "AlterObject", "DeleteObject"}
        pairs == {<<ChildCmd(a, r, k, 1), ChildCmd(b, r, k, 2)>> :
                     a \in ops, b \in ops, r \in RefDicts, k \in Keys}
        Other(r) == CHOOSE x \in RefDicts : x # r
        Insert(l, i) ==
            LET c == ChildCmd("CreateObject", Other(l[1].metaclass), l[1].classname, 1)
            IN SubSeq(l, 1, i) \o <<c>> \o SubSeq(l, i + 1, Len(l))
    IN pairs \cup {Insert(l, i) : l \in pairs, i \in 0..2}

\* An Alter command with the subcommands ops is applied to the old version:
\* _alter_innards.
AlterObject(ops) ==
    /\ diff.phase = "versions"
    /\ diff.new = diff.old
    /\ diff' = [diff EXCEPT !.phase = "altered",
                            !.cmd = ObjectCmd("AlterObject", ops),
                            !.result = ApplyCmd(diff.old, ObjectCmd("AlterObject", ops),
                                                diff.provided)]
    /\ UNCHANGED <<bases, refs, attr, local_attr, last, nops, reg, ddl>>

\* A Delete command with the subcommands explicit is applied to the old
\* version: _delete_innards.
DeleteObject(explicit) ==
    /\ diff.phase = "versions"
    /\ diff.new.none
    /\ LET r == DeleteInnards(1, Applied(FALSE, diff.old.local, diff.old.full, "none"),
                              ObjectCmd("DeleteObject", explicit), diff.provided)
       IN diff' = [diff EXCEPT !.phase = "deleted", !.cmd = r.cmd,
                               !.explicit = explicit,
                               !.result = [r.scls EXCEPT !.none = TRUE]]
    /\ UNCHANGED <<bases, refs, attr, local_attr, last, nops, reg, ddl>>

----------------------------------------------------------------------------
\* The registry of RefDicts: ReferencingObjectMeta.  Two object kinds are
\* declared, Parent and Kid, Kid a subclass of Parent; each class body
\* assigns RefDicts to names of the class.

\* The names a class body may give a RefDict, and the fields it may name.
DictKeys == {"k1", "k2"}
AttrNames == {"a1", "a2"}
LocalAttrNames == {"l1", "l2"}

\* The child kinds, each with its __mro__; X1 is a subclass of X.
RefClsMro == [X |-> <<"X">>, Y |-> <<"Y">>, X1 |-> <<"X1", "X">>]
RefClasses == DOMAIN RefClsMro

\* ref_cls given as a string: the name of a getter method of the kind.
Getter == "get_ref_cls"

\* A RefDict assigned to the name key in a class body.
RefDict(key, attr_, local_attr_, ref_cls) ==
    [key |-> key, attr |-> attr_, local_attr |-> local_attr_, ref_cls |-> ref_cls]

RefDictDecls ==
    {RefDict(k, a, l, c) : k \in DictKeys, a \in AttrNames, l \in LocalAttrNames,
                           c \in RefClasses \cup {Getter}}

\* cls._fields[name]: the field is missing or has the three flags.
FieldOk == [present |-> TRUE, inheritable |-> FALSE, ephemeral |-> TRUE, coerce |-> TRUE]

Defects ==
    {[FieldOk EXCEPT !.present = FALSE], [FieldOk EXCEPT !.inheritable = TRUE],
     [FieldOk EXCEPT !.ephemeral = FALSE], [FieldOk EXCEPT !.coerce = FALSE]}

\* An update that keeps the value of a key already present.
RECURSIVE DictUpdateKeepFirst(_, _)
DictUpdateKeepFirst(od, items) ==
    IF items = <<>> THEN od
    ELSE LET d == Head(items)
         IN DictUpdateKeepFirst(IF \E i \in 1..Len(od) : od[i].key = d.key
                                THEN od ELSE Append(od, d),
                                Tail(items))

\* OrderedDict.update: a key already present keeps its place and takes the
\* new value, a new key is appended.
RECURSIVE DictUpdate(_, _)
DictUpdate(od, items) ==
    IF items = <<>> THEN od
    ELSE LET d == Head(items)
             at == {i \in 1..Len(od) : od[i].key = d.key}
         IN DictUpdate(IF at = {} THEN Append(od, d)
                       ELSE [i \in 1..Len(od) |-> IF i \in at THEN d ELSE od[i]],
                       Tail(items))

\* The loop over reversed(cls.__mro__): the own RefDicts of every kind from
\* the root to the class itself.
RECURSIVE CollectRefdicts(_, _)
CollectRefdicts(refdicts, own) ==
    IF own = <<>> THEN refdicts
    ELSE CollectRefdicts(DictUpdate(refdicts, Head(own)), Tail(own))

\* The checks of the attr field alone.
FieldErrorAttrOnly(fields, dct) ==
    IF ~fields[dct.attr].present THEN "RuntimeError: no refdict field attr"
    ELSE IF fields[dct.attr].inheritable THEN "RuntimeError: attr must not be inheritable"
    ELSE IF ~fields[dct.attr].ephemeral THEN "RuntimeError: attr must be ephemeral"
    ELSE IF ~fields[dct.attr].coerce THEN "RuntimeError: attr must be coerced"
    ELSE "none"

\* The checks of the fields of one RefDict, in the order of the code.
FieldError(fields, dct) ==
    IF ~fields[dct.attr].present THEN "RuntimeError: no refdict field attr"
    ELSE IF ~fields[dct.local_attr].present THEN "RuntimeError: no refdict field local_attr"
    ELSE IF fields[dct.attr].inheritable THEN "RuntimeError: attr must not be inheritable"
    ELSE IF fields[dct.local_attr].inheritable THEN "RuntimeError: local_attr must not be inheritable"
    ELSE IF ~fields[dct.attr].ephemeral THEN "RuntimeError: attr must be ephemeral"
    ELSE IF ~fields[dct.local_attr].ephemeral THEN "RuntimeError: local_attr must be ephemeral"
    ELSE IF ~fields[dct.attr].coerce THEN "RuntimeError: attr must be coerced"
    ELSE IF ~fields[dct.local_attr].coerce THEN "RuntimeError: local_attr must be coerced"
    ELSE "none"

\* The loop over refdicts.values() without the test for a RefDict already
\* registered for the ref_cls: the later RefDict takes the place of the
\* earlier one.
RECURSIVE CheckRefdictsLastWins(_, _, _, _, _)
CheckRefdictsLastWins(fields, getter, todo, done, by_refclass) ==
    IF todo = <<>>
    THEN [err |-> "none", refdicts |-> done, by_refclass |-> by_refclass]
    ELSE LET dct == Head(todo)
             ferr == FieldError(fields, dct)
             ref_cls == IF dct.ref_cls = Getter /\ getter # "NotImplementedError"
                        THEN getter ELSE dct.ref_cls
             dct1 == [dct EXCEPT !.ref_cls = ref_cls]
         IN IF ferr # "none"
            THEN [err |-> ferr, refdicts |-> <<>>, by_refclass |-> <<>>]
            ELSE IF ref_cls = Getter
            THEN CheckRefdictsLastWins(fields, getter, Tail(todo), Append(done, dct1),
                                       by_refclass)
            ELSE CheckRefdictsLastWins(fields, getter, Tail(todo), Append(done, dct1),
                     Append(SelectSeq(by_refclass, LAMBDA d : d.ref_cls # ref_cls), dct1))

\* The loop over refdicts.values(): field checks, resolution of a ref_cls
\* given as a string (getter is what the getter of the class returns, or
\* "NotImplementedError"), and the registration by ref_cls.
RECURSIVE CheckRefdicts(_, _, _, _, _)
CheckRefdicts(fields, getter, todo, done, by_refclass) ==
    IF todo = <<>>
    THEN [err |-> "none", refdicts |-> done, by_refclass |-> by_refclass]
    ELSE LET dct == Head(todo)
             ferr == FieldError(fields, dct)
             ref_cls == IF dct.ref_cls = Getter /\ getter # "NotImplementedError"
                        THEN getter ELSE dct.ref_cls
             dct1 == [dct EXCEPT !.ref_cls = ref_cls]
         IN IF ferr # "none"
            THEN [err |-> ferr, refdicts |-> <<>>, by_refclass |-> <<>>]
            ELSE IF ref_cls = Getter
            THEN CheckRefdicts(fields, getter, Tail(todo), Append(done, dct1), by_refclass)
            ELSE IF \E i \in 1..Len(by_refclass) : by_refclass[i].ref_cls = ref_cls
            THEN [err |-> "TypeError: multiple reference dicts", refdicts |-> <<>>,
                  by_refclass |-> <<>>]
            ELSE CheckRefdicts(fields, getter, Tail(todo), Append(done, dct1),
                               Append(by_refclass, dct1))

\* ReferencingObjectMeta.__new__ for a class whose kinds, from the root to
\* itself, declare the RefDicts own[1], ..., own[n].
NewClass(fields, getter, own) ==
    LET refdicts == CollectRefdicts(<<>>, own)
        r == CheckRefdicts(fields, getter, refdicts, <<>>, <<>>)
    IN [err |-> r.err,
        \* cls._refdicts, in get_refdicts() order
        refdicts |-> Reversed(r.refdicts),
        by_refclass |-> r.by_refclass,
        \* the own RefDicts, a ref_cls that was resolved assigned in place
        mydicts |-> SelectSeq(r.refdicts,
                        LAMBDA d : \E i \in 1..Len(own[Len(own)]) :
                                        own[Len(own)][i].key = d.key)]

\* get_own_refdicts of a class that was built.
GetOwnRefdicts(cls) == cls.mydicts

\* The lookup that prefers the farthest kind of the chain.
RECURSIVE RefdictForMroFarthest(_, _)
RefdictForMroFarthest(by_refclass, mro) ==
    IF mro = <<>> THEN RefDict("KeyError", "-", "-", "-")
    ELSE LET hit == {i \in 1..Len(by_refclass) : by_refclass[i].ref_cls = Head(mro)}
             rest == RefdictForMroFarthest(by_refclass, Tail(mro))
         IN IF rest.key # "KeyError" \/ hit = {} THEN rest
            ELSE by_refclass[CHOOSE i \in hit : TRUE]

\* get_refdict_for_class: the RefDict, or the KeyError.
RECURSIVE RefdictForMro(_, _)
RefdictForMro(by_refclass, mro) ==
    IF mro = <<>> THEN RefDict("KeyError", "-", "-", "-")
    ELSE LET hit == {i \in 1..Len(by_refclass) : by_refclass[i].ref_cls = Head(mro)}
         IN IF hit # {} THEN by_refclass[CHOOSE i \in hit : TRUE]
            ELSE RefdictForMro(by_refclass, Tail(mro))

GetRefdictForClass(cls, refcls) == RefdictForMro(cls.by_refclass, RefClsMro[refcls])

\* No class is being declared.
NoClass == [err |-> "none", refdicts |-> <<>>, by_refclass |-> <<>>, mydicts |-> <<>>]
AllFieldsOk == [f \in AttrNames \cup LocalAttrNames |-> FieldOk]
NoReg ==
    [phase |-> "idle", parent |-> <<>>, kid |-> <<>>, fields |-> AllFieldsOk,
     getter |-> "NotImplementedError", parent_cls |-> NoClass, kid_cls |-> NoClass,
     refcls |-> "-", lookup |-> RefDict("-", "-", "-", "-")]

\* The class bodies: Parent assigns at most one RefDict, Kid at most two;
\* at most one of the fields a1 and l1 is defective; Parent leaves the
\* getter unimplemented, Kid may implement it.
RegInputs ==
    LET one == {<<d>> : d \in {x \in RefDictDecls : x.key = "k1"}}
        two == {<<d1, d2>> : <<d1, d2>> \in
                   {<<d1, d2>> \in RefDictDecls \X RefDictDecls : d1.key # d2.key}}
        fields == {AllFieldsOk} \cup
                  {[AllFieldsOk EXCEPT ![f] = d] : f \in {"a1", "l1"}, d \in Defects}
    IN {[NoReg EXCEPT !.phase = "declared", !.parent = p, !.kid = k,
                      !.fields = fs, !.getter = g] :
            p \in {<<>>} \cup one,
            k \in {<<>>} \cup {<<d>> : d \in RefDictDecls} \cup two,
            fs \in fields, g \in {"NotImplementedError", "X"}}

\* class Parent(ReferencingObject)
DefineParent ==
    /\ reg.phase = "declared"
    /\ reg' = [reg EXCEPT !.phase = "parent",
                          !.parent_cls = NewClass(reg.fields, "NotImplementedError",
                                                  <<reg.parent>>)]
    /\ UNCHANGED <<bases, refs, attr, local_attr, last, nops, diff, ddl>>

\* class Kid(Parent); Parent exists only if its registry was built.
DefineKid ==
    /\ reg.phase = "parent"
    /\ reg.parent_cls.err = "none"
    /\ reg' = [reg EXCEPT !.phase = "kid",
                          !.kid_cls = NewClass(reg.fields, reg.getter,
                                               <<GetOwnRefdicts(reg.parent_cls), reg.kid>>)]
    /\ UNCHANGED <<bases, refs, attr, local_attr, last, nops, diff, ddl>>

\* Kid.get_refdict_for_class(refcls)
Lookup(refcls) ==
    /\ reg.phase = "kid"
    /\ reg.kid_cls.err = "none"
    /\ reg' = [reg EXCEPT !.phase = "lookup", !.refcls = refcls,
                          !.lookup = GetRefdictForClass(reg.kid_cls, refcls)]
    /\ UNCHANGED <<bases, refs, attr, local_attr, last, nops, diff, ddl>>

----------------------------------------------------------------------------
\* dbops.enums.AlterEnumAddValue
\*
\* A string is a sequence of characters; the text of a command is a sequence
\* of keywords and characters.  None is an argument that was not given.

NoneArg == <<"<None>">>

Chars == {"a", "'"}

\* The strings of at most two characters.
Strings == {<<>>} \cup {<<c>> : c \in Chars} \cup {<<c, d>> : c \in Chars, d \in Chars}

\* Python truth of an optional string: None and '' are false.
Truthy(s) == s # NoneArg /\ s # <<>>

RECURSIVE DoubleQuotes(_)
\* string.replace("'", "''")
DoubleQuotes(s) ==
    IF s = <<>> THEN <<>>
    ELSE (IF Head(s) = "'" THEN <<"'", "'">> ELSE <<Head(s)>>) \o DoubleQuotes(Tail(s))

\* common.quote_literal: the string between single quotes, every embedded
\* quote doubled; None has no replace method.
ql(s) ==
    IF s = NoneArg THEN [err |-> "AttributeError", text |-> <<>>]
    ELSE [err |-> "none", text |-> <<"'">> \o DoubleQuotes(s) \o <<"'">>]

\* common.qname: the quoted parts of a name joined by dots.
qn(name) == <<"\"", name[1], "\"", ".", "\"", name[2], "\"">>

\* AlterEnum.prefix_code
PrefixCode(name) == <<"ALTER TYPE ">> \o qn(name)

\* code followed by one more fragment, unless quoting already failed.
Extend(code, kw, lit) ==
    IF code.err # "none" THEN code
    ELSE IF lit.err # "none" THEN [err |-> lit.err, text |-> <<>>]
    ELSE [err |-> "none", text |-> code.text \o kw \o lit.text]

\* if self.before: ... elif self.after: ...
PositionClause(code, before, after) ==
    IF Truthy(before) THEN Extend(code, <<" BEFORE ">>, ql(before))
    ELSE IF Truthy(after) THEN Extend(code, <<" AFTER ">>, ql(before))
    ELSE code

\* AlterEnumAddValue.code
AlterEnumAddValueCode(name, value, before, after, conditional) ==
    LET c0 == [err |-> "none",
               text |-> PrefixCode(name) \o <<" ADD VALUE">>
                        \o (IF conditional THEN <<" IF NOT EXISTS">> ELSE <<>>)]
        c1 == Extend(c0, <<" ">>, ql(value))
    IN PositionClause(c1, before, after)

EnumNames == {<<"public", "color">>}

NoDdl == [phase |-> "none", name |-> <<"-", "-">>, value |-> NoneArg,
          before |-> NoneArg, after |-> NoneArg, conditional |-> FALSE,
          code |-> [err |-> "none", text |-> <<>>]]

\* AlterEnumAddValue(name, value, before=, after=, conditional=)
DdlInputs ==
    {[NoDdl EXCEPT !.phase = "init", !.name = n, !.value = v, !.before = b,
                   !.after = a, !.conditional = c] :
        n \in EnumNames, v \in Strings \ {<<>>},
        b \in Strings \cup {NoneArg}, a \in Strings \cup {NoneArg},
        c \in BOOLEAN}

\* op.code(block)
GenerateCode ==
    /\ ddl.phase = "init"
    /\ ddl' = [ddl EXCEPT !.phase = "code",
                          !.code = AlterEnumAddValueCode(ddl.name, ddl.value, ddl.before,
                                                         ddl.after, ddl.conditional)]
    /\ UNCHANGED <<bases, refs, attr, local_attr, last, nops, diff, reg>>

----------------------------------------------------------------------------
\* ReferencingObject.merge

\* The lists of other objects merge may be given.
MergeArgs(o) ==
    {<<x>> : x \in Objs \ {o}} \cup
    {<<x, y>> : <<x, y>> \in {<<x, y>> \in Objs \X Objs : x # y /\ x # o /\ y # o}}

\* One round of the loop: the collection of obj merged into this_coll,
\* the values of obj winning.
MergeCollOverwrite(this_coll, other_coll) ==
    IF other_coll = NoneColl THEN this_coll
    ELSE IF this_coll = NoneColl THEN other_coll
    ELSE Replace(this_coll, other_coll)

\* One round of the loop: the collection of obj merged into this_coll.
MergeColl(this_coll, other_coll) ==
    IF other_coll = NoneColl THEN this_coll
    ELSE IF this_coll = NoneColl THEN other_coll
    ELSE Replace(this_coll,
                 [k \in DOMAIN other_coll \ DOMAIN this_coll |-> other_coll[k]])

RECURSIVE MergeObjs(_, _, _)
MergeObjs(this_coll, at, objs) ==
    IF objs = <<>> THEN this_coll
    ELSE MergeObjs(MergeColl(this_coll, at[Head(objs)]), at, Tail(objs))

\* o.merge(*objs)
Merge(o, objs) ==
    /\ attr' = [attr EXCEPT ![o] = MergeObjs(attr[o], attr, objs)]
    /\ refs' = Collect(refs, attr', local_attr)
    /\ last' = [Event("merge", o, "-") EXCEPT !.objs = objs]
    /\ UNCHANGED <<bases, local_attr>>

----------------------------------------------------------------------------
\* Three objects, each extending the one before.
InitBases ==
    [o \in Objs |-> IF Ord(o) = 1 THEN <<>> ELSE <<ObjSeq[Ord(o) - 1]>>]

Init ==
    /\ bases = InitBases
    /\ refs = [i \in RefIds |-> NullRef]
    /\ attr = [o \in Objs |-> EmptyMapping]
    /\ local_attr = [o \in Objs |-> EmptyMapping]
    /\ last = Event("init", "-", "-")
    /\ nops = 0
    /\ diff = NoDiff
    /\ reg = NoReg
    /\ ddl = NoDdl

\* Objects whose collection fields may still hold None.
InitUnset ==
    /\ bases = InitBases
    /\ refs = [i \in RefIds |-> NullRef]
    /\ attr \in [Objs -> {NoneColl, EmptyMapping}]
    /\ local_attr \in [Objs -> {NoneColl, EmptyMapping}]
    /\ last = Event("init", "-", "-")
    /\ nops = 0
    /\ diff = NoDiff
    /\ reg = NoReg
    /\ ddl = NoDdl

\* One more operation is applied; no delta is being computed, no class
\* declared and no command text generated.
Step == nops < MaxOps /\ nops' = nops + 1 /\ UNCHANGED <<diff, reg, ddl>>

FinalizeStep ==
    \E o \in Objs, ks \in RefKeyLists, e \in BOOLEAN, dctx \in DCtxs,
       mat \in BOOLEAN : Step /\ Finalize(o, ks, e, dctx, mat)

\* The commands and the merge engine.
Next ==
    \/ \E o \in Objs, k \in Keys, di \in BOOLEAN : Step /\ CreateRef(o, k, di)
    \/ \E o \in Objs, k \in Keys, n \in Keys : Step /\ RenameRef(o, k, n)
    \/ \E o \in Objs, k \in Keys : Step /\ DeleteRef(o, k)
    \/ \E o \in Objs : \E nb \in BaseLists(o) : Step /\ Rebase(o, nb)
    \/ FinalizeStep
    \/ \E k \in Keys : Step /\ CreateUnnested(k)
    \/ \E k \in Keys, n \in Keys : Step /\ RenameUnnested(k, n)
    \/ \E k \in Keys : Step /\ DeleteUnnested(k)

Spec == Init /\ [][Next]_vars

\* The mutation API called directly instead of through the Create and
\* Delete commands, every Rename applied to the overriding children too.
NextApi ==
    \/ \E o \in Objs, k \in Keys, di \in BOOLEAN, r \in BOOLEAN :
          Step /\ AddClassrefOp(o, k, di, r)
    \/ \E o \in Objs, k \in Keys : Step /\ DelClassrefOp(o, k)
    \/ \E o \in Objs, k \in Keys, n \in Keys : Step /\ RenameRefs(o, k, n)
    \/ \E o \in Objs : \E nb \in BaseLists(o) : Step /\ Rebase(o, nb)
    \/ \E o \in Objs : Step /\ Rederive(o)
    \/ FinalizeStep

SpecApi == Init /\ [][NextApi]_vars

\* add_classref alone, on objects whose collections may still be None.
NextAdd ==
    \E o \in Objs, k \in Keys, di \in BOOLEAN, r \in BOOLEAN :
        Step /\ AddClassrefOp(o, k, di, r)

SpecAdd == InitUnset /\ [][NextAdd]_vars

\* add_classref and merge, on objects whose collections may still be None.
NextMerge ==
    \/ \E o \in Objs, k \in Keys, di \in BOOLEAN, r \in BOOLEAN :
           Step /\ AddClassrefOp(o, k, di, r)
    \/ \E o \in Objs : \E objs \in MergeArgs(o) : Step /\ Merge(o, objs)

SpecMerge == InitUnset /\ [][NextMerge]_vars

\* delta and the application of command trees, on pairs of versions.
InitDelta ==
    /\ bases = InitBases
    /\ refs = [i \in RefIds |-> NullRef]
    /\ attr = [o \in Objs |-> EmptyMapping]
    /\ local_attr = [o \in Objs |-> EmptyMapping]
    /\ last = Event("init", "-", "-")
    /\ nops = 0
    /\ diff \in DiffInputs
    /\ reg = NoReg
    /\ ddl = NoDdl

NextDelta ==
    \/ ComputeDelta
    \/ ApplyDelta
    \/ \E explicit \in ExplicitOps : DeleteObject(explicit)
    \/ \E ops \in SubcommandLists({"CreateObject", "AlterObject", "DeleteObject"})
                    \cup OrderedLists :
          AlterObject(ops)

SpecDelta == InitDelta /\ [][NextDelta]_vars

\* The registry of two kinds, built from their class bodies.
InitRegistry ==
    /\ bases = InitBases
    /\ refs = [i \in RefIds |-> NullRef]
    /\ attr = [o \in Objs |-> EmptyMapping]
    /\ local_attr = [o \in Objs |-> EmptyMapping]
    /\ last = Event("init", "-", "-")
    /\ nops = 0
    /\ diff = NoDiff
    /\ reg \in RegInputs
    /\ ddl = NoDdl

NextRegistry ==
    \/ DefineParent
    \/ DefineKid
    \/ \E refcls \in RefClasses : Lookup(refcls)

SpecRegistry == InitRegistry /\ [][NextRegistry]_vars

\* The text generated for one ALTER TYPE ... ADD VALUE command.
InitEnum ==
    /\ bases = InitBases
    /\ refs = [i \in RefIds |-> NullRef]
    /\ attr = [o \in Objs |-> EmptyMapping]
    /\ local_attr = [o \in Objs |-> EmptyMapping]
    /\ last = Event("init", "-", "-")
    /\ nops = 0
    /\ diff = NoDiff
    /\ reg = NoReg
    /\ ddl \in DdlInputs

NextEnum == GenerateCode

SpecEnum == InitEnum /\ [][NextEnum]_vars

----------------------------------------------------------------------------
\* Properties.

\* C1 (as stated): in every state reached by Create, Rename and Delete
\* commands, rebases and finalize calls, every name n of the local
\* collection of an object O is in O's full collection, and in the full
\* collection of every descendant D of O unless D's local collection
\* defines n too.
C1_LocalNamesVisible ==
    \A O \in Objs : \A n \in DOMAIN local_attr[O] :
        /\ Has(attr[O], n)
        /\ \A D \in Descendants(bases, O) :
              Has(attr[D], n) \/ Has(local_attr[D], n)

\* C2: every key of an object's local collection is a key of its full
\* collection, after any sequence of add_classref, del_classref, renames
\* applied to the owner and to the children that override the key, rebase
\* pruning, rederive_classrefs and finalize.
C2_LocalKeysInFull ==
    \A o \in Objs : DOMAIN local_attr[o] \subseteq DOMAIN attr[o]

\* C2 witness: a rename reached a child object that declares the key too, and
\* both now hold the new key locally.
C2_Witness ==
    /\ last.op = "rename" /\ last.key # last.new_key
    /\ \E c \in Children(bases, last.obj) :
          /\ Has(local_attr[last.obj], last.new_key)
          /\ Has(local_attr[c], last.new_key)
          /\ ~Has(local_attr[c], last.key)
          /\ refs[local_attr[c][last.new_key]].subject = c
          /\ refs[local_attr[c][last.new_key]].name = last.new_key

\* C3: del_classref(O, k) when no base of O has k in its full collection
\* removes k from the full collection of O and of every descendant of O
\* whose local collection does not contain k, and leaves k, with the same
\* child, in the full and the local collection of every descendant that
\* declares k itself.
C3_DelCascade ==
    [][(/\ last'.op = "del_classref"
        /\ \A i \in 1..Len(bases[last'.obj]) :
                ~Has(attr[bases[last'.obj][i]], last'.key))
       => /\ ~Has(attr'[last'.obj], last'.key)
          /\ \A d \in Descendants(bases, last'.obj) :
                IF Has(local_attr[d], last'.key)
                THEN /\ Has(attr'[d], last'.key)
                     /\ attr'[d][last'.key] = attr[d][last'.key]
                     /\ Has(local_attr'[d], last'.key)
                     /\ local_attr'[d][last'.key] = local_attr[d][last'.key]
                ELSE ~Has(attr'[d], last'.key)]_vars

\* C3 witness: a del_classref of a key no base provided took the key out of
\* the owner and out of a descendant that had inherited it.
C3_Witness ==
    /\ last.op = "del_classref" /\ ~last.is_inherited /\ last.was_local
    /\ last.obj \in last.removed
    /\ \E d \in Descendants(bases, last.obj) :
          d \in last.removed /\ ~Has(attr[d], last.key)

\* C4: del_classref(O, k) removes k from O's local collection, inherited or
\* not; when some base of O has k in its full collection, O's full
\* collection keeps k and the collections of every descendant of O are as
\* they were.
C4_DelLocalAlways ==
    [][last'.op = "del_classref"
       => /\ ~Has(local_attr'[last'.obj], last'.key)
          /\ (\E i \in 1..Len(bases[last'.obj]) :
                    Has(attr[bases[last'.obj][i]], last'.key))
             => /\ attr'[last'.obj] = attr[last'.obj]
                /\ \A d \in Descendants(bases, last'.obj) :
                      /\ attr'[d] = attr[d]
                      /\ local_attr'[d] = local_attr[d]]_vars

\* C4 witness: a del_classref of a key a base provides and the owner had
\* declared itself: the owner's full collection still has the key, its
\* local collection has not.
C4_Witness ==
    /\ last.op = "del_classref" /\ last.is_inherited /\ last.was_local
    /\ last.removed = {}
    /\ Has(attr[last.obj], last.key)
    /\ ~Has(local_attr[last.obj], last.key)

\* The value a collection field holds under key n, None if it has none or
\* is itself None.
Entry(coll, n) == IF coll # NoneColl /\ Has(coll, n) THEN coll[n] ELSE None

\* C5: add_classref with replace=false of a child whose shortname is a key
\* of the owner's local collection fails with SchemaError carrying the
\* source location of the child being added, and the owner's local and full
\* collections are as they were.
C5_DuplicateRejected ==
    [][(/\ last'.op = "add_classref" /\ ~last'.replace
        /\ Entry(local_attr[last'.obj], last'.key) # None)
       => /\ last'.err = "SchemaError"
          /\ last'.errctx = <<nops'>>
          /\ last'.errctx #
                refs[local_attr[last'.obj][last'.key]].sourcectx
          /\ attr'[last'.obj] = attr[last'.obj]
          /\ local_attr'[last'.obj] = local_attr[last'.obj]]_vars

\* C5 witness: an add_classref was rejected as a duplicate; the owner still
\* holds the earlier child under the key.
C5_Witness ==
    /\ last.op = "add_classref" /\ last.err = "SchemaError"
    /\ ~last.replace /\ last.was_local
    /\ last.errctx = <<nops>>
    /\ Has(local_attr[last.obj], last.key)
    /\ refs[local_attr[last.obj][last.key]].sourcectx # last.errctx

\* C6: add_classref with the key absent from the local collection, or with
\* replace=true, or on a collection that is still None, does not fail; the
\* new child is then stored under its shortname in the owner's local and
\* full collections, and no other key of either collection changes.
C6_AddStores ==
    [][(/\ last'.op = "add_classref"
        /\ \/ Entry(local_attr[last'.obj], last'.key) = None
           \/ last'.replace)
       => /\ last'.err = "none"
          /\ Has(local_attr'[last'.obj], last'.key)
          /\ Has(attr'[last'.obj], last'.key)
          /\ attr'[last'.obj][last'.key] = local_attr'[last'.obj][last'.key]
          /\ refs[attr'[last'.obj][last'.key]] = NullRef
          /\ refs'[attr'[last'.obj][last'.key]] =
                NewRef(last'.key, last'.obj,
                       refs'[attr'[last'.obj][last'.key]].declared_inherited,
                       <<nops'>>)
          /\ \A n \in Keys \ {last'.key} :
                /\ Entry(attr'[last'.obj], n) = Entry(attr[last'.obj], n)
                /\ Entry(local_attr'[last'.obj], n) =
                        Entry(local_attr[last'.obj], n)
          /\ "None" \notin DOMAIN attr'[last'.obj]
          /\ "None" \notin DOMAIN local_attr'[last'.obj]]_vars

\* C6 witness: an add_classref with replace=true put a new child in place of
\* the one the owner had declared under the key, next to another key.
C6_Witness ==
    /\ last.op = "add_classref" /\ last.err = "none"
    /\ last.replace /\ last.was_local
    /\ attr[last.obj][last.key] = local_attr[last.obj][last.key]
    /\ refs[attr[last.obj][last.key]].sourcectx = <<nops>>
    /\ \E n \in Keys \ {last.key} : Has(local_attr[last.obj], n)

\* The positions of the objects, in owner-then-MRO order, whose local
\* collection contains name.
Holders(o, name) ==
    {i \in 1..Len(Mro(bases, o)) : Has(local_attr[Mro(bases, o)[i]], name)}

\* The result the claim gives get_classref_origin: the first holder, the
\* last one when farthest, an error when there is none.
Origin(o, name, farthest, errors) ==
    LET hs == Holders(o, name)
        pick == IF farthest
                THEN CHOOSE i \in hs : \A j \in hs : j <= i
                ELSE CHOOSE i \in hs : \A j \in hs : i <= j
        r == GetClassrefOrigin(bases, attr, local_attr, o, name, farthest)
    IN IF hs = {} THEN r \in errors ELSE r = Mro(bases, o)[pick]

\* C7 (as stated): for every owner and name, get_classref_origin returns the
\* first object, of the owner and then its ancestors in MRO order, whose
\* local collection contains name (the last one when farthest), and raises
\* an error when there is none.
C7_OriginOfAnyName ==
    \A o \in Objs, name \in Keys, farthest \in BOOLEAN :
        Origin(o, name, farthest, {"KeyError", "AssertionError"})

\* C7 (amended): the same for a name of the owner's full collection, which
\* get_classref_origin asserts; the error is then KeyError.
C7_OriginOfFullName ==
    \A o \in Objs, name \in Keys, farthest \in BOOLEAN :
        Has(attr[o], name) => Origin(o, name, farthest, {"KeyError"})

\* C7 witness: a name of an object's full collection that the object and an
\* ancestor both declare, so that the nearest and the farthest origin
\* differ, next to a name of a full collection that has no origin.
C7_Witness ==
    /\ \E o \in Objs, name \in Keys :
          /\ Has(attr[o], name)
          /\ GetClassrefOrigin(bases, attr, local_attr, o, name, FALSE) = o
          /\ GetClassrefOrigin(bases, attr, local_attr, o, name, TRUE)
                \in Objs \ {o}
    /\ \E o \in Objs, name \in Keys :
          /\ Has(attr[o], name)
          /\ GetClassrefOrigin(bases, attr, local_attr, o, name, FALSE)
                = "KeyError"

\* The bases of o that hold key k in their full collection.
Providers(o, k) == {i \in 1..Len(bases[o]) : Has(attr[bases[o][i]], k)}

\* o has no local k and at least two of its bases hold under k a child of
\* one and the same origin owner.
Diamond(o, k) ==
    /\ ~Has(local_attr[o], k)
    /\ Cardinality(Providers(o, k)) >= 2
    /\ \A i, j \in Providers(o, k) :
          refs[attr[bases[o][i]][k]].subject =
          refs[attr[bases[o][j]][k]].subject

\* What C8 promises of a finalize of o for the diamond key k: no error on
\* k; when finalize completes, o's full collection holds under k a child
\* the bases held, and o's local collection does not hold k.
DiamondShared(o, k) ==
    /\ last'.errkey # k
    /\ last'.err = "none" =>
          /\ Has(attr'[o], k)
          /\ \E i \in Providers(o, k) : attr'[o][k] = attr[bases[o][i]][k]
          /\ refs'[attr'[o][k]] = refs[attr'[o][k]]
          /\ ~Has(local_attr'[o], k)
          /\ k \notin last'.derived_keys

\* C8 (as stated): finalize of an object with a diamond key k among the
\* keys it merges raises no error for k, derives no copy, and leaves the
\* shared child under k in the full collection.
C8_DiamondAlwaysShared ==
    [][\A o \in Objs, k \in Keys, ks \in RefKeyLists, e \in BOOLEAN,
          dctx \in DCtxs, mat \in BOOLEAN :
          (/\ Diamond(o, k)
           /\ k \in Range(ClassrefKeys(attr, o, ks))
           /\ Finalize(o, ks, e, dctx, mat))
          => DiamondShared(o, k)]_vars

\* C8 (amended): the same when inherit_pure returns the inherited child
\* itself.
C8_DiamondShared ==
    [][\A o \in Objs, k \in Keys, ks \in RefKeyLists, e \in BOOLEAN,
          dctx \in DCtxs :
          (/\ Diamond(o, k)
           /\ k \in Range(ClassrefKeys(attr, o, ks))
           /\ Finalize(o, ks, e, dctx, FALSE))
          => DiamondShared(o, k)]_vars

\* C8 witness: finalize has merged a key that two bases of the object hold
\* with the same child, and the object holds that child, not locally.
C8_Witness ==
    /\ last.op = "finalize" /\ last.err = "none"
    /\ \E k \in last.merged_keys :
          /\ Diamond(last.obj, k)
          /\ k \notin last.derived_keys
          /\ \A i \in Providers(last.obj, k) :
                attr[last.obj][k] = attr[bases[last.obj][i]][k]

\* o declares k itself, without the `inherited` keyword, and a base of o
\* holds k: the merged value is a derived copy, not the local child.
UntaggedOverride(o, k) ==
    /\ Has(local_attr[o], k)
    /\ ~refs[local_attr[o][k]].declared_inherited
    /\ Providers(o, k) # {}

\* The origin owners of the children the bases of o hold under k.
ProvidingAncestors(o, k) ==
    {refs[attr[bases[o][i]][k]].subject : i \in Providers(o, k)}

SpuriousInherited(o, k) ==
    /\ Has(local_attr[o], k)
    /\ refs[local_attr[o][k]].declared_inherited
    /\ Providers(o, k) = {}

\* C10 (as stated): finalize merging a key whose local child is declared
\* `inherited` while no base provides it raises a definition error, whatever
\* requires_explicit_inherit and the delta context are.
C10_SpuriousRejected ==
    [][\A o \in Objs, k \in Keys, ks \in RefKeyLists, e \in BOOLEAN,
          dctx \in DCtxs, mat \in BOOLEAN :
          (/\ SpuriousInherited(o, k)
           /\ k \in Range(ClassrefKeys(attr, o, ks))
           /\ Finalize(o, ks, e, dctx, mat))
          => last'.err \in {"SchemaDefinitionError: must be inherited",
                            "SchemaDefinitionError: cannot be inherited"}]_vars

\* finalize of o on the collections at, la and the store rs.
Finalized(rs, at, la, o, ks, e, dctx, mat) ==
    LET r == MergeClassrefDict(bases[o], rs, at, la, o, ks, e, dctx, mat)
        at1 == [at EXCEPT ![o] = r.classrefs]
        la1 == [la EXCEPT ![o] = r.local_classrefs]
    IN [err |-> r.err, errkey |-> r.errkey, attr |-> at1, local_attr |-> la1,
        refs |-> IF r.err = "none" THEN Collect(r.refs, at1, la1) ELSE rs,
        derived_keys |-> r.derived_keys, delta_keys |-> r.delta_keys]

\* The collections c1 (children in rs1) and c2 (children in rs2) have the
\* same keys and structurally equal children.
SameChildren(rs1, c1, rs2, c2) ==
    /\ DOMAIN c1 = DOMAIN c2
    /\ \A k \in DOMAIN c1 : rs1[c1[k]] = rs2[c2[k]]

\* C11 (as stated): whenever finalize of an object succeeds, a second
\* finalize of it with the same arguments, bases and declarations succeeds
\* too and leaves full and local collections with the same keys and
\* structurally equal children.  inherit_pure returns the inherited child.
C11_FinalizeIdempotent ==
    \A o \in Objs, ks \in RefKeyLists, e \in BOOLEAN, dctx \in DCtxs :
        LET r1 == Finalized(refs, attr, local_attr, o, ks, e, dctx, FALSE)
            r2 == Finalized(r1.refs, r1.attr, r1.local_attr, o, ks, e, dctx,
                            FALSE)
        IN (r1.err = "none" /\ r2.err # "full")
           => /\ r2.err = "none"
              /\ SameChildren(r1.refs, r1.attr[o], r2.refs, r2.attr[o])
              /\ SameChildren(r1.refs, r1.local_attr[o],
                              r2.refs, r2.local_attr[o])

\* C12 (as stated): whenever delta(old, new) of two versions old and new of
\* an object has been applied to old, the application succeeded and the
\* local and the full collection of every RefDict of the result equal the
\* ones of new.
C12_RoundTrip ==
    (diff.phase = "applied" /\ ~diff.old.none /\ ~diff.new.none)
    => /\ diff.result.err = "none"
       /\ \A r \in RefDicts :
            /\ diff.result.local[r] = diff.new.local[r]
            /\ diff.result.full[r] = diff.new.full[r]

\* The version an applied command tree left.
ResultVersion == [none |-> diff.result.none, local |-> diff.result.local, full |-> diff.result.full]

\* C13: delta(X, X) has no subcommands, for every version X and for the X
\* that applying delta(None, X) has just created.
C13_DeltaOfSelfEmpty ==
    /\ (diff.phase = "delta" /\ diff.old = diff.new) => diff.cmd.subs = <<>>
    /\ (diff.phase = "applied" /\ diff.old.none /\ diff.result.err = "none")
       => /\ Delta(ResultVersion, ResultVersion).subs = <<>>
          /\ Delta(ResultVersion, diff.new).subs = <<>>

\* delta(X, X) was computed for an X with local children in both RefDicts.
C13_Witness ==
    /\ diff.phase = "delta"
    /\ diff.old = diff.new
    /\ \A r \in RefDicts : DOMAIN diff.old.local[r] # {}
    /\ diff.cmd.op = "AlterObject"

\* delta(None, X) was applied for an X with local children and X exists.
C13_WitnessCreated ==
    /\ diff.phase = "applied"
    /\ diff.old.none
    /\ diff.result.err = "none"
    /\ ~diff.result.none
    /\ \E r \in RefDicts : DOMAIN diff.result.local[r] = Keys

\* The child commands the delta of None and new has to carry: one Create per
\* local child of new.
CreatesOf(new) ==
    {ChildCmd("CreateObject", r, k, new.local[r][k]) :
        <<r, k>> \in {<<r, k>> \in RefDicts \X Keys : k \in DOMAIN new.local[r]}}

\* C14: delta(None, new) is the bare Create command when new has no local
\* child; otherwise it is a group of two commands, first the Create without
\* subcommands, then one Alter whose subcommands are the Create commands of
\* all local children of new.
C14_CreateSeparate ==
    (diff.phase = "delta" /\ diff.old.none)
    => IF CreatesOf(diff.new) = {}
       THEN diff.cmd = ObjectCmd("CreateObject", <<>>)
       ELSE /\ diff.cmd.op = "CommandGroup"
            /\ Len(diff.cmd.subs) = 2
            /\ diff.cmd.subs[1] = ObjectCmd("CreateObject", <<>>)
            /\ diff.cmd.subs[2].op = "AlterObject"
            /\ Range(diff.cmd.subs[2].subs) = CreatesOf(diff.new)
            /\ Len(diff.cmd.subs[2].subs) = Cardinality(CreatesOf(diff.new))

\* delta(None, new) was computed for a new with children in both RefDicts.
C14_Witness ==
    /\ diff.phase = "delta"
    /\ diff.old.none
    /\ diff.cmd.op = "CommandGroup"
    /\ \A r \in RefDicts : DOMAIN diff.new.local[r] # {}

\* The child commands of a command tree.
ChildSubs(cmd) ==
    IF cmd.op = "CommandGroup"
    THEN {cmd.subs[i].subs[j] : <<i, j>> \in
            {<<i, j>> \in (1..Len(cmd.subs)) \X (1..(2 * Cardinality(Keys))) :
                j <= Len(cmd.subs[i].subs)}}
    ELSE Range(cmd.subs)

\* The number of child commands of a command tree.
NumChildSubs(cmd) ==
    IF cmd.op = "CommandGroup"
    THEN Cardinality({<<i, j>> \in (1..Len(cmd.subs)) \X (1..(2 * Cardinality(Keys))) :
                         j <= Len(cmd.subs[i].subs)})
    ELSE Len(cmd.subs)

\* The child command delta owes to the name k of the RefDict r, if any.
Expected(old, new, r, k) ==
    LET in_old == Has(old.local[r], k)
        in_new == Has(new.local[r], k)
    IN IF in_old /\ in_new
       THEN IF old.local[r][k] # new.local[r][k]
            THEN {ChildCmd("AlterObject", r, k, new.local[r][k])}
            ELSE {}
       ELSE IF in_old THEN {ChildCmd("DeleteObject", r, k, old.local[r][k])}
       ELSE IF in_new THEN {ChildCmd("CreateObject", r, k, new.local[r][k])}
       ELSE {}

\* C15: the child commands of delta(old, new) are decided by the local
\* collections alone: a name of both gives one Alter if the two children
\* differ and nothing if they are equal, a name of old alone one Delete, a
\* name of new alone one Create, and a name neither declares locally
\* nothing, inherited or not; there is no other child command and none twice.
C15_LocalOnly ==
    diff.phase = "delta"
    => /\ ChildSubs(diff.cmd) =
              UNION {Expected(diff.old, diff.new, r, k) : <<r, k>> \in RefDicts \X Keys}
       /\ NumChildSubs(diff.cmd) = Cardinality(ChildSubs(diff.cmd))

\* A delta of two versions with an altered, a created and a deleted child,
\* a name both versions only inherit, and a deleted override of a name the
\* bases provide.
C15_Witness ==
    /\ diff.phase = "delta"
    /\ ~diff.old.none /\ ~diff.new.none
    /\ \E c1, c2, c3 \in ChildSubs(diff.cmd) :
          c1.op = "AlterObject" /\ c2.op = "CreateObject" /\ c3.op = "DeleteObject"
    /\ \E r \in RefDicts, k \in Keys :
          /\ k \in diff.provided[r]
          /\ ~Has(diff.old.local[r], k) /\ ~Has(diff.new.local[r], k)
    /\ \E r \in RefDicts, k \in Keys :
          /\ k \in diff.provided[r]
          /\ Has(diff.old.local[r], k) /\ ~Has(diff.new.local[r], k)

\* The child commands of a command tree, in order.
ChildSeq(cmd) ==
    IF cmd.op = "CommandGroup" THEN cmd.subs[Len(cmd.subs)].subs ELSE cmd.subs

KeyIndex(k) == CHOOSE i \in 1..Len(KeySeq) : KeySeq[i] = k

\* The place of a RefDict in the declaration order of the class.
DeclIndex(r) == CHOOSE i \in 1..Len(MyDicts) : MyDicts[i] = r

\* Within one RefDict the altered, the created and the deleted children are
\* each in name order.
NameOrdered(L) ==
    \A i, j \in 1..Len(L) :
        (i < j /\ L[i].metaclass = L[j].metaclass /\ L[i].op = L[j].op)
        => KeyIndex(L[i].classname) < KeyIndex(L[j].classname)

C17_FailureLeavesNoTrace ==
    (diff.phase \in {"applied", "altered", "deleted"} /\ diff.result.err = "SchemaError")
    => \A r \in RefDicts :
          /\ diff.result.local[r] = diff.old.local[r]
          /\ diff.result.full[r] = diff.old.full[r]

\* The collections the objects of the snapshot given to an operation show
\* once the operation has returned.  The operations assign the fields of
\* these very objects (setattr) and rebase deletes from their collections
\* (del coll[ref_name]); no copy of an object is made, so what they show is
\* the next state.
InputSnapshotAfter == <<attr', local_attr'>>

\* C18 (as stated): no operation changes the snapshot it was given: after
\* add_classref, del_classref, the child commands, a rebase or finalize the
\* objects of the input snapshot have the full and local collections they
\* had before.
C18_InputSnapshotUntouched == [][InputSnapshotAfter = <<attr, local_attr>>]_vars

\* Every local child of the old version has a Delete command in the applied
\* command, and the local collections of the result are empty.
NoChildLeft ==
    \A r \in RefDicts :
        /\ diff.result.local[r] = EmptyMapping
        /\ \A k \in DOMAIN diff.old.local[r] :
              \E i \in 1..Len(diff.cmd.subs) :
                  /\ diff.cmd.subs[i].op = "DeleteObject"
                  /\ diff.cmd.subs[i].metaclass = r
                  /\ diff.cmd.subs[i].classname = k

C20_CreateInnards ==
    [][(last'.op = "create" /\ last'.err = "none")
       => LET o == last'.obj
              k == last'.key
              child == Get(local_attr'[o], k)
          IN /\ child # None
             /\ refs[child] = NullRef
             /\ refs'[child].subject = o
             /\ refs'[child].name = k
             /\ Get(attr'[o], k) = child
             /\ \A d \in Descendants(bases, o) :
                   IF Has(local_attr[d], k)
                   THEN attr'[d] = attr[d] /\ local_attr'[d] = local_attr[d]
                   ELSE Get(attr'[d], k) = child /\ local_attr'[d] = local_attr[d]]_vars

\* A child was created in an owner with one descendant that overrides the
\* name and one that does not.
C20_Witness ==
    /\ last.op = "create"
    /\ last.err = "none"
    /\ \E d1, d2 \in Descendants(bases, last.obj) :
          /\ Has(local_attr[d1], last.key)
          /\ attr[d1][last.key] # local_attr[last.obj][last.key]
          /\ ~Has(local_attr[d2], last.key)
          /\ Get(attr[d2], last.key) = local_attr[last.obj][last.key]

\* C21 (as stated): a Rename command of the child O declares as a to another
\* shortname b leaves that child under b and nothing under a in O's local
\* and full collection, and in the full collection of every descendant of O
\* that does not declare a itself.
C21_RenameReachesDescendants ==
    [][(last'.op = "rename" /\ last'.key # last'.new_key)
       => LET o == last'.obj
              a == last'.key
              b == last'.new_key
              child == local_attr[o][a]
          IN /\ Get(local_attr'[o], b) = child /\ ~Has(local_attr'[o], a)
             /\ Get(attr'[o], b) = child /\ ~Has(attr'[o], a)
             /\ \A d \in Descendants(bases, o) :
                   ~Has(local_attr[d], a)
                   => Get(attr'[d], b) = child /\ ~Has(attr'[d], a)]_vars

\* Some ancestor of d under the bases b declares k locally.
HasOrigin(b, la, d, k) == \E a \in Range(Ancestors(b, d)) : Has(la[a], k)

\* C22: after a rebase of O, for O and each of its descendants, every key of
\* the full collection that is not local has an ancestor under the new
\* bases that declares it locally; the keys removed from a full collection
\* were not local and had no such ancestor; no local collection changed.
C22_RebasePrunes ==
    [][last'.op = "rebase"
       => \A d \in {last'.obj} \cup Descendants(bases', last'.obj) :
             /\ \A k \in DOMAIN attr'[d] \ DOMAIN local_attr'[d] :
                   HasOrigin(bases', local_attr', d, k)
             /\ \A k \in DOMAIN attr[d] \ DOMAIN attr'[d] :
                   ~Has(local_attr[d], k) /\ ~HasOrigin(bases', local_attr, d, k)
             /\ \A k \in DOMAIN attr[d] \cap DOMAIN attr'[d] : attr'[d][k] = attr[d][k]
             /\ DOMAIN attr'[d] \subseteq DOMAIN attr[d]
             /\ local_attr'[d] = local_attr[d]]_vars

\* A rebase of an object with a descendant: the descendant keeps a key it
\* inherits under the new bases and has lost the key of an object that is
\* no longer among its ancestors.
C22_Witness ==
    /\ last.op = "rebase"
    /\ \E d \in Descendants(bases, last.obj) :
          /\ \E k \in DOMAIN attr[d] :
                ~Has(local_attr[d], k) /\ HasOrigin(bases, local_attr, d, k)
          /\ \E k \in Keys, x \in Objs :
                /\ Has(local_attr[x], k)
                /\ x \notin Range(Ancestors(bases, d))
                /\ ~Has(attr[d], k)

AsVersion(rs, at, la, o) ==
    [none |-> FALSE,
     local |-> [r \in RefDicts |->
                  IF r = MyDicts[1] THEN [k \in DOMAIN la[o] |-> rs[la[o][k]]]
                  ELSE EmptyMapping],
     full |-> [r \in RefDicts |->
                  IF r = MyDicts[1] THEN [k \in DOMAIN at[o] |-> rs[at[o][k]]]
                  ELSE EmptyMapping]]

\* Base declares p and holds it in both collections, Child extends Base
\* alone, has no local child and holds Base's p as its only inherited
\* child; two more children can be made.
ScenarioStart(base, child, p) ==
    /\ bases[child] = <<base>>
    /\ Has(local_attr[base], p)
    /\ Get(attr[base], p) = local_attr[base][p]
    /\ local_attr[child] = EmptyMapping
    /\ DOMAIN attr[child] = {p}
    /\ attr[child][p] = local_attr[base][p]
    /\ \E i, j \in FreeIds(refs) : i # j

\* The scenario: finalize of Child, then p declared on Child with the
\* `inherited` tag, then finalize again, and the delta of Child between the
\* two finalize calls.
Scenario(child, p, ks, e, dctx) ==
    LET before == Finalized(refs, attr, local_attr, child, ks, e, dctx, FALSE)
        obj == NextId(before.refs)
        rs == [before.refs EXCEPT ![obj] = NewRef(p, child, TRUE, <<nops + 1>>)]
        created == CreateInnards(bases, rs, before.attr, before.local_attr, child, obj)
        after == Finalized(rs, created.attr, created.local_attr, child, ks, e, dctx, FALSE)
    IN [before |-> before, created |-> created, after |-> after,
        delta |-> Delta(AsVersion(before.refs, before.attr, before.local_attr, child),
                        AsVersion(after.refs, after.attr, after.local_attr, child))]

\* What the scenario promises up to the delta.
ScenarioRuns(s, child, p) ==
    /\ s.before.err = "none"
    /\ Has(s.before.attr[child], p)
    /\ ~Has(s.before.local_attr[child], p)
    /\ s.created.err = "none"
    /\ s.after.err = "none"
    /\ Has(s.after.local_attr[child], p)
    /\ s.delta.op = "AlterObject"
    /\ Len(s.delta.subs) = 1
    /\ s.delta.subs[1].classname = p

Declared ==
    (IF reg.phase \in {"parent", "kid", "lookup"}
     THEN {[cls |-> reg.parent_cls, own |-> <<reg.parent>>,
            getter |-> "NotImplementedError"]}
     ELSE {}) \cup
    (IF reg.phase \in {"kid", "lookup"}
     THEN {[cls |-> reg.kid_cls, own |-> <<reg.parent, reg.kid>>, getter |-> reg.getter]}
     ELSE {})

\* The child kind a RefDict targets: its ref_cls, a name resolved through
\* the getter; "unknown" while the getter is not implemented.
Target(d, getter) ==
    IF d.ref_cls # Getter THEN d.ref_cls
    ELSE IF getter # "NotImplementedError" THEN getter
    ELSE "unknown"

\* Two distinct RefDicts of ds target the same child kind.
Ambiguous(ds, getter) ==
    \E i, j \in 1..Len(ds) :
        /\ i # j
        /\ Target(ds[i], getter) \in RefClasses
        /\ Target(ds[i], getter) = Target(ds[j], getter)

ValidField(name) == reg.fields[name] = FieldOk

\* C26: building the registry of a kind fails whenever the attr or the
\* local_attr field of one of its RefDicts is missing from the fields of the
\* kind, is inheritable, is not ephemeral or is not coerced; the failure for
\* a field is raised only when there is such a field; in a kind that was
\* built the attr and local_attr fields of every RefDict exist and are
\* non-inheritable, ephemeral and coerced.
C26_FieldsValidated ==
    \A c \in Declared :
        LET ds == CollectRefdicts(<<>>, c.own)
            rd == c.cls.refdicts
            defect == \E i \in 1..Len(ds) :
                          ~ValidField(ds[i].attr) \/ ~ValidField(ds[i].local_attr)
        IN /\ defect => c.cls.err # "none"
           /\ c.cls.err \notin {"none", "TypeError: multiple reference dicts"} => defect
           /\ c.cls.err = "none" =>
                /\ Len(rd) = Len(ds)
                /\ \A i \in 1..Len(rd) : \A f \in {rd[i].attr, rd[i].local_attr} :
                       /\ reg.fields[f].present
                       /\ ~reg.fields[f].inheritable
                       /\ reg.fields[f].ephemeral
                       /\ reg.fields[f].coerce

\* Kid was refused because the local_attr field of one of its RefDicts is
\* not coerced, the attr field of each being valid.
C26_Witness ==
    /\ reg.phase = "kid"
    /\ reg.kid_cls.err = "RuntimeError: local_attr must be coerced"
    /\ \E i \in 1..Len(reg.kid) : ~reg.fields[reg.kid[i].local_attr].coerce
    /\ \A i \in 1..Len(reg.kid) : ValidField(reg.kid[i].attr)

\* The RefDict r of a registry is the declared RefDict d, its ref_cls
\* resolved through the getter where it could be.
IsDeclared(r, d, getter) ==
    /\ r.key = d.key
    /\ r.attr = d.attr
    /\ r.local_attr = d.local_attr
    /\ r.ref_cls = (IF Target(d, getter) = "unknown" THEN d.ref_cls ELSE Target(d, getter))

\* The RefDicts of seq chosen by the test.
Those(seq, Test(_)) == {seq[i] : i \in {j \in 1..Len(seq) : Test(seq[j])}}

\* C27 as stated: the registry of a built kind holds the RefDicts of the
\* kind and of its supertype kind, and for a local_attr named by a RefDict
\* of the kind and by a RefDict of the supertype kind it holds exactly one
\* RefDict, the one of the kind itself.
C27_OverrideByLocalAttr ==
    (reg.phase \in {"kid", "lookup"} /\ reg.kid_cls.err = "none") =>
        LET rd == reg.kid_cls.refdicts
        IN /\ \A r \in Those(rd, LAMBDA x : TRUE) :
                  \E d \in Those(reg.parent \o reg.kid, LAMBDA x : TRUE) :
                      IsDeclared(r, d, reg.getter)
           /\ \A l \in LocalAttrNames :
                  (/\ Those(reg.parent, LAMBDA x : x.local_attr = l) # {}
                   /\ Those(reg.kid, LAMBDA x : x.local_attr = l) # {}) =>
                      /\ Cardinality({i \in 1..Len(rd) : rd[i].local_attr = l}) = 1
                      /\ \A r \in Those(rd, LAMBDA x : x.local_attr = l) :
                             \E d \in Those(reg.kid, LAMBDA x : TRUE) :
                                 IsDeclared(r, d, reg.getter)

\* C27, amended: the registry of a built kind holds, for every name under
\* which the kind or its supertype kind declares a RefDict, exactly one
\* RefDict, the one of the kind itself where it declares the name and the
\* one of the supertype kind otherwise, and holds no other RefDict; the
\* own RefDicts of the kind are the ones it declares.
C27_OverrideByName ==
    (reg.phase \in {"kid", "lookup"} /\ reg.kid_cls.err = "none") =>
        LET rd == reg.kid_cls.refdicts
            kid == Those(reg.kid, LAMBDA x : TRUE)
            parent == Those(reg.parent, LAMBDA x : TRUE)
        IN /\ {r.key : r \in Those(rd, LAMBDA x : TRUE)} =
                  {d.key : d \in kid \cup parent}
           /\ \A k \in DictKeys : Cardinality({i \in 1..Len(rd) : rd[i].key = k}) <= 1
           /\ \A r \in Those(rd, LAMBDA x : TRUE) :
                  IF \E d \in kid : d.key = r.key
                  THEN \E d \in kid : IsDeclared(r, d, reg.getter)
                  ELSE \E d \in parent : IsDeclared(r, d, reg.getter)
           /\ Those(GetOwnRefdicts(reg.kid_cls), LAMBDA x : TRUE) =
                  {r \in Those(rd, LAMBDA x : TRUE) : \E d \in kid : d.key = r.key}

\* Kid was built and declares, under the name Parent uses, a RefDict of
\* another local_attr; the registry of Kid holds the RefDict of Kid.
C27_Witness ==
    /\ reg.phase = "kid"
    /\ reg.kid_cls.err = "none"
    /\ Len(reg.parent) = 1
    /\ \E i \in 1..Len(reg.kid) :
           /\ reg.kid[i].key = reg.parent[1].key
           /\ reg.kid[i].local_attr # reg.parent[1].local_attr
           /\ \E j \in 1..Len(reg.kid_cls.refdicts) :
                  IsDeclared(reg.kid_cls.refdicts[j], reg.kid[i], reg.getter)

\* The RefDicts the registry of Kid holds for the child kind k.
RegisteredFor(k) == Those(reg.kid_cls.refdicts, LAMBDA x : x.ref_cls = k)

\* C28: get_refdict_for_class(refcls) on a built kind returns the RefDict
\* the kind has registered for the first kind of the ancestor chain of
\* refcls, refcls itself first, for which it has one, and raises KeyError
\* when it has none for any kind of the chain.
C28_FirstInChain ==
    reg.phase = "lookup" =>
        LET mro == RefClsMro[reg.refcls]
            hits == {i \in 1..Len(mro) : RegisteredFor(mro[i]) # {}}
        IN IF hits = {} THEN reg.lookup.key = "KeyError"
           ELSE LET first == CHOOSE i \in hits : \A j \in hits : i <= j
                IN RegisteredFor(mro[first]) = {reg.lookup}

\* Kid has a RefDict for X1 and one for its supertype X, and the lookup of
\* X1 returned the one for X1.
C28_Witness ==
    /\ reg.phase = "lookup"
    /\ reg.refcls = "X1"
    /\ RegisteredFor("X") # {}
    /\ RegisteredFor("X1") # {}
    /\ reg.lookup.ref_cls = "X1"

\* Kid has a RefDict for Y alone, and the lookup of X1 raised KeyError.
C28_WitnessKeyError ==
    /\ reg.phase = "lookup"
    /\ reg.refcls = "X1"
    /\ RegisteredFor("Y") # {}
    /\ reg.lookup.key = "KeyError"

\* What the bases of o provide under k, one child per origin owner.
InheritedOf(o, k) == DedupInherited(refs, InheritedFrom(bases[o], attr, k))

\* C29 (as stated): whenever finalize of an object succeeds, a key it went
\* through that had no local child and more than one inherited child, one
\* per origin owner, is in the full collection of the object, holding a
\* child derived for the object, and is not in its local collection.
C29_DerivedOnlyInFull ==
    \A o \in Objs, ks \in RefKeyLists, e \in BOOLEAN, dctx \in DCtxs, mat \in BOOLEAN :
        LET r == Finalized(refs, attr, local_attr, o, ks, e, dctx, mat)
        IN r.err = "none" =>
             \A k \in Range(ClassrefKeys(attr, o, ks)) :
                 (~Has(local_attr[o], k) /\ Len(InheritedOf(o, k)) > 1) =>
                     /\ Has(r.attr[o], k)
                     /\ r.refs[r.attr[o][k]].subject = o
                     /\ ~Has(r.local_attr[o], k)

\* C30: whenever finalize of an object succeeds, a key it went through that
\* had a local child and at least one inherited child holds, in the local
\* and in the full collection of the object, one and the same child: a new
\* one, owned by the object, with the name, the `inherited` keyword and the
\* source context of the local child it replaces.
C30_MergedReplacesLocal ==
    \A o \in Objs, ks \in RefKeyLists, e \in BOOLEAN, dctx \in DCtxs, mat \in BOOLEAN :
        LET r == Finalized(refs, attr, local_attr, o, ks, e, dctx, mat)
        IN r.err = "none" =>
             \A k \in Range(ClassrefKeys(attr, o, ks)) :
                 (Has(local_attr[o], k) /\ Len(InheritedOf(o, k)) >= 1) =>
                     /\ Has(r.attr[o], k) /\ Has(r.local_attr[o], k)
                     /\ r.attr[o][k] = r.local_attr[o][k]
                     /\ r.attr[o][k] # local_attr[o][k]
                     /\ r.attr[o][k] \in FreeIds(refs)
                     /\ r.refs[r.attr[o][k]] = [refs[local_attr[o][k]] EXCEPT !.subject = o]

\* A finalize has replaced a local child that overrides an inherited one:
\* both collections of the object hold the copy, which carries the source
\* context of the declaration, and a base provides the key.
C30_Witness ==
    /\ last.op = "finalize"
    /\ last.err = "none"
    /\ \E k \in last.derived_keys :
           /\ Has(local_attr[last.obj], k)
           /\ attr[last.obj][k] = local_attr[last.obj][k]
           /\ refs[attr[last.obj][k]].sourcectx # NoCtx
           /\ Len(InheritedOf(last.obj, k)) >= 1

\* C31: whenever finalize of an object succeeds with a child kind that does
\* not materialize, a key it went through that had no local child and one
\* inherited child holds in the full collection of the object the very
\* child of the base, and the local collection of the object has not
\* gained the key and no new child was made for it.
C31_PureInheritanceShares ==
    \A o \in Objs, ks \in RefKeyLists, e \in BOOLEAN, dctx \in DCtxs :
        LET r == Finalized(refs, attr, local_attr, o, ks, e, dctx, FALSE)
        IN r.err = "none" =>
             \A k \in Range(ClassrefKeys(attr, o, ks)) :
                 (~Has(local_attr[o], k) /\ Len(InheritedOf(o, k)) = 1) =>
                     /\ Has(r.attr[o], k)
                     /\ r.attr[o][k] = InheritedOf(o, k)[1]
                     /\ \E b \in Range(bases[o]) : Get(attr[b], k) = r.attr[o][k]
                     /\ r.refs[r.attr[o][k]] = refs[InheritedOf(o, k)[1]]
                     /\ ~Has(r.local_attr[o], k)
                     /\ k \notin r.derived_keys

\* A finalize has gone through a key that one base provides and the object
\* does not declare: the full collection of the object holds the child of
\* the base, which the base owns, and the local collection has no such key.
C31_Witness ==
    /\ last.op = "finalize"
    /\ last.err = "none"
    /\ \E k \in last.merged_keys \ last.derived_keys :
           /\ ~Has(local_attr[last.obj], k)
           /\ Has(attr[last.obj], k)
           /\ Len(InheritedOf(last.obj, k)) = 1
           /\ attr[last.obj][k] = InheritedOf(last.obj, k)[1]
           /\ refs[attr[last.obj][k]].subject # last.obj

\* C32 (as stated): a key finalize goes through that no base provides does
\* not make finalize fail when the object has no local child under it, and
\* whenever finalize succeeds such a key holds what it held before in the
\* local and in the full collection of the object: the local child in both
\* when there is one, and otherwise what was there.
C32_NoBaseKeepsLocal ==
    \A o \in Objs, ks \in RefKeyLists, e \in BOOLEAN, dctx \in DCtxs, mat \in BOOLEAN :
        LET r == Finalized(refs, attr, local_attr, o, ks, e, dctx, mat)
        IN \A k \in Range(ClassrefKeys(attr, o, ks)) :
               InheritedFrom(bases[o], attr, k) = <<>> =>
                   /\ ~Has(local_attr[o], k) => ~(r.err # "none" /\ r.errkey = k)
                   /\ r.err = "none" =>
                        /\ Get(r.local_attr[o], k) = Get(local_attr[o], k)
                        /\ Get(r.attr[o], k) = Get(attr[o], k)
                        /\ Has(local_attr[o], k) =>
                               /\ r.attr[o][k] = local_attr[o][k]
                               /\ r.refs[r.attr[o][k]] = refs[local_attr[o][k]]

\* C33 (as stated): whenever finalize of an object succeeds with a delta
\* context, for every key it went through whose value in the full
\* collection differs from the local child the object had, the delta of the
\* child was computed for the delta context: merged local and inherited
\* children, merged inherited children and a single inherited child alike.
C33_DeltaNodePerChangedKey ==
    \A o \in Objs, ks \in RefKeyLists, e \in BOOLEAN, mat \in BOOLEAN :
        \A dctx \in DCtxs \ {"None"} :
            LET r == Finalized(refs, attr, local_attr, o, ks, e, dctx, mat)
            IN r.err = "none" =>
                 \A k \in Range(ClassrefKeys(attr, o, ks)) :
                     Get(r.attr[o], k) # Get(local_attr[o], k) => k \in r.delta_keys

\* C34: finalize with no delta context, or with one whose declarative flag
\* is off, never raises the error for a missing `inherited` keyword; merging
\* a key under which the object has a local child without the keyword and a
\* base provides a child, it completes, whether the RefDict requires the
\* keyword or not, and both collections of the object hold a new copy of
\* the local child in its place.
C34_UntaggedAcceptedOutsideDeclarative ==
    \A o \in Objs, e \in BOOLEAN, mat \in BOOLEAN :
        \A dctx \in {"None", "nondeclarative"} :
            /\ \A ks \in RefKeyLists :
                   Finalized(refs, attr, local_attr, o, ks, e, dctx, mat).err
                       # "SchemaDefinitionError: must be inherited"
            /\ \A k \in Keys :
                   LET r == Finalized(refs, attr, local_attr, o, <<k>>, e, dctx, mat)
                   IN (/\ Has(local_attr[o], k)
                       /\ ~refs[local_attr[o][k]].declared_inherited
                       /\ InheritedOf(o, k) # <<>>
                       /\ FreeIds(refs) # {}) =>
                          /\ r.err = "none"
                          /\ r.local_attr[o][k] = r.attr[o][k]
                          /\ r.attr[o][k] \in FreeIds(refs)
                          /\ r.refs[r.attr[o][k]] = [refs[local_attr[o][k]] EXCEPT !.subject = o]

\* A finalize with no delta context has replaced a local child that
\* overrides an inherited one without the keyword.
C34_Witness ==
    /\ last.op = "finalize"
    /\ last.err = "none"
    /\ \E k \in last.derived_keys \ last.delta_keys :
           /\ Has(local_attr[last.obj], k)
           /\ attr[last.obj][k] = local_attr[last.obj][k]
           /\ refs[attr[last.obj][k]].sourcectx # NoCtx
           /\ ~refs[attr[last.obj][k]].declared_inherited
           /\ InheritedOf(last.obj, k) # <<>>

\* The owner after the first n commands of the list subs, each applied to
\* what the one before it returned.
RECURSIVE AfterFirst(_, _, _, _)
AfterFirst(n, scls, subs, provided) ==
    IF n = 0 THEN scls
    ELSE ApplyChild(AfterFirst(n - 1, scls, subs, provided), subs[n], provided)

\* The child subcommands of cmd, RefDict by RefDict in get_refdicts() order,
\* those of one RefDict in the order of the subcommand list.
ByRefdict(cmd) ==
    SelectSeq(cmd.subs, LAMBDA op : op.metaclass = RefDictSeq[1]) \o
    SelectSeq(cmd.subs, LAMBDA op : op.metaclass = RefDictSeq[2])

\* C35: the owner a Create or Alter command returns is the owner it was
\* applied to after the child subcommands of the command, taken RefDict by
\* RefDict and for each RefDict in the order of the subcommand list, each
\* applied to what the one before it returned.
C35_ListOrder ==
    (/\ diff.phase \in {"altered", "applied"}
     /\ diff.cmd.op \in {"CreateObject", "AlterObject"}) =>
        LET subs == ByRefdict(diff.cmd)
            start == Applied(FALSE, diff.old.local, diff.old.full, "none")
        IN diff.result = AfterFirst(Len(subs), start, subs, diff.provided)

\* An Alter command that creates a child and then alters it was applied,
\* a command on a child of the other RefDict between the two: the owner
\* holds the altered child.
C35_Witness ==
    /\ diff.phase = "altered"
    /\ diff.result.err = "none"
    /\ Len(diff.cmd.subs) = 3
    /\ diff.cmd.subs[1].op = "CreateObject"
    /\ diff.cmd.subs[3].op = "AlterObject"
    /\ diff.cmd.subs[1].metaclass = diff.cmd.subs[3].metaclass
    /\ diff.cmd.subs[1].classname = diff.cmd.subs[3].classname
    /\ diff.cmd.subs[2].metaclass # diff.cmd.subs[1].metaclass
    /\ diff.cmd.subs[1].value # diff.cmd.subs[3].value
    /\ diff.result.local[diff.cmd.subs[3].metaclass][diff.cmd.subs[3].classname]
           = diff.cmd.subs[3].value

\* The collections after a Create command of a child named k nested in o
\* and a Delete command of that child.
CreateThenDelete(o, k) ==
    LET obj == NextId(refs)
        rs == [refs EXCEPT ![obj] = NewRef(k, o, FALSE, <<nops + 1>>)]
        created == CreateInnards(bases, rs, attr, local_attr, o, obj)
    IN [created |-> created,
        deleted |-> DelClassref(bases, created.attr, created.local_attr, o, k)]

\* C36 (as stated): for an owner that does not declare a child named k and
\* none of whose bases provides one, a Create command of a child named k
\* followed by a Delete command of it leaves the full and the local
\* collection of the owner and of every other object as they were before
\* the Create.
C36_CreateDeleteNoOp ==
    \A o \in Objs, k \in Keys :
        (/\ ~Has(local_attr[o], k)
         /\ ~IsInherited(bases, attr, o, k)
         /\ FreeIds(refs) # {}) =>
            LET r == CreateThenDelete(o, k)
            IN /\ r.created.err = "none"
               /\ r.deleted.attr = attr
               /\ r.deleted.local_attr = local_attr

\* The places of the final subcommand list that hold a Delete command of
\* the child named k of RefDict r.
DeletesOf(r, k) ==
    {i \in 1..Len(diff.cmd.subs) :
        /\ diff.cmd.subs[i].op = "DeleteObject"
        /\ diff.cmd.subs[i].metaclass = r
        /\ diff.cmd.subs[i].classname = k}

\* The final command of an applied Delete command deletes every local child
\* of the owner once: the explicit subcommands come first, as given; a child
\* with an explicit Delete has that one and no implicit Delete; every other
\* local child has one implicit Delete, after the explicit subcommands; no
\* other command was added, and no local child is left.
DeletedOnce ==
    /\ SubSeq(diff.cmd.subs, 1, Len(diff.explicit)) = diff.explicit
    /\ \A i \in (Len(diff.explicit) + 1)..Len(diff.cmd.subs) :
           /\ diff.cmd.subs[i].op = "DeleteObject"
           /\ Has(diff.old.local[diff.cmd.subs[i].metaclass], diff.cmd.subs[i].classname)
    /\ \A r \in RefDicts :
           /\ diff.result.local[r] = EmptyMapping
           /\ \A k \in DOMAIN diff.old.local[r] : Cardinality(DeletesOf(r, k)) = 1

C38_NoReferrerNoChange ==
    [][(\/ last'.op = "rename" /\ last'.key = last'.new_key
        \/ last'.op \in {"create_unnested", "rename_unnested", "delete_unnested"})
       => /\ attr' = attr
          /\ local_attr' = local_attr]_vars

\* A child that an object declares and a descendant inherits was renamed to
\* a name with the shortname it had.
C38_Witness ==
    /\ last.op = "rename"
    /\ last.key = last.new_key
    /\ Has(local_attr[last.obj], last.key)
    /\ \E d \in Descendants(bases, last.obj) :
           Get(attr[d], last.key) = local_attr[last.obj][last.key]

\* A child named like a child some object declares was created outside a
\* referrer context.
C38_WitnessUnnested ==
    /\ last.op = "create_unnested"
    /\ \E o \in Objs : Has(local_attr[o], last.key)

\* The first object of objs whose full collection has the key k, NoneObj if
\* none has.
FirstWith(objs, k) ==
    LET having == {i \in 1..Len(objs) : Entry(attr[objs[i]], k) # None}
    IN IF having = {} THEN NoneObj
       ELSE objs[CHOOSE i \in having : \A j \in having : i <= j]

\* C39: o.merge(*objs) leaves every key of the full collection of o with
\* the value it had, gives every other key the value the first object of
\* objs that has the key holds under it, adds no key that none of them has,
\* and changes neither the local collection of o nor any collection of
\* another object.
C39_MergeOnlyAdds ==
    [][\A o \in Objs : \A objs \in MergeArgs(o) :
          (Step /\ Merge(o, objs)) =>
              /\ local_attr' = local_attr
              /\ \A d \in Objs \ {o} : attr'[d] = attr[d]
              /\ \A k \in Keys :
                     Entry(attr'[o], k) =
                         IF Entry(attr[o], k) # None THEN Entry(attr[o], k)
                         ELSE IF FirstWith(objs, k) = NoneObj THEN None
                         ELSE Entry(attr[FirstWith(objs, k)], k)]_vars

\* An object was merged with two others that hold different children under
\* one name, which it does not declare: it holds the child of the first of
\* the two.
C39_Witness ==
    /\ last.op = "merge"
    /\ Len(last.objs) = 2
    /\ \E k \in Keys :
           /\ Entry(attr[last.objs[1]], k) # None
           /\ Entry(attr[last.objs[2]], k) # None
           /\ Entry(attr[last.objs[1]], k) # Entry(attr[last.objs[2]], k)
           /\ Entry(attr[last.obj], k) = Entry(attr[last.objs[1]], k)
           /\ Entry(local_attr[last.obj], k) = None

\* An object that holds a child under a name was merged with an object that
\* holds another child under that name, and holds its own.
C39_WitnessKept ==
    /\ last.op = "merge"
    /\ \E k \in Keys :
           /\ Entry(local_attr[last.obj], k) # None
           /\ Entry(attr[last.obj], k) = Entry(local_attr[last.obj], k)
           /\ Entry(attr[last.objs[1]], k) # None
           /\ Entry(attr[last.objs[1]], k) # Entry(attr[last.obj], k)

\* text ends with tail.
EndsWith(text, tail) ==
    /\ Len(text) >= Len(tail)
    /\ SubSeq(text, Len(text) - Len(tail) + 1, Len(text)) = tail

\* The position keywords occurring in a text.
PositionKeywords(text) == {text[i] : i \in 1..Len(text)} \cap {" BEFORE ", " AFTER "}

\* C40: the text generated by AlterEnumAddValue takes its position clause
\* from the matching argument: given before=v it ends with BEFORE and v
\* quoted, given after=v and no before it ends with AFTER and v quoted, and
\* given neither it has no position clause.
C40_PositionClauseFromArgument ==
    ddl.phase = "code" =>
        IF Truthy(ddl.before)
        THEN /\ ddl.code.err = "none"
             /\ EndsWith(ddl.code.text, <<" BEFORE ">> \o ql(ddl.before).text)
        ELSE IF Truthy(ddl.after)
        THEN /\ ddl.code.err = "none"
             /\ EndsWith(ddl.code.text, <<" AFTER ">> \o ql(ddl.after).text)
        ELSE /\ ddl.code.err = "none"
             /\ PositionKeywords(ddl.code.text) = {}

====
